---- MODULE Spec2Model ----
(***************************************************************************)
(* A model of ml_recsys_tools: the hyper-parameter search harness          *)
(* (RecoBayesSearchHoldOut), the rank-fusion ensembles                     *)
(* (CombinedRankEnsemble, CombinedSimilRecoEns, CascadeEnsemble) and the   *)
(* top-level recommendation entry point                                    *)
(* (BaseDFSparseRecommender.get_recommendations).                          *)
(***************************************************************************)
EXTENDS Integers, Sequences, FiniteSets, TLC

(***************************************************************************)
(* Bounds of the model.                                                    *)
(***************************************************************************)
\* number of trials the optimizer asks for (n_calls)
NCalls == 2
\* the validation metric takes the values 0/MetricSteps .. MetricSteps/MetricSteps
MetricSteps == 2

(***************************************************************************)
(* RecoBayesSearchHoldOut: state.                                          *)
(***************************************************************************)
VARIABLES
    interrupt_message_file, \* "None" or the configured path
    fs_file,                \* the interrupt file on disk: [exists, words]
    message,                \* local of _check_interrupt: control words of the line read
    pc,                     \* position of the search thread
    exc,                    \* exception raised in the current trial ("none" if none)
    paused,                 \* the current trial went through the pause loop
    report_df,              \* metric value of the current trial's report
    losses,                 \* the values objective_func returned to the optimizer
    all_metrics             \* RecoBayesSearchHoldOut.all_metrics, one record per row

searchVars == <<interrupt_message_file, fs_file, message, pc, exc, paused,
                report_df, losses, all_metrics>>

\* CombinedRankEnsemble / CombinedSimilRecoEns: state of one rank fusion
VARIABLES
    dfs,           \* the frames the members' calc_funcs return, in member order
    n_unfilt,      \* the unfiltered width the members are asked for
    fill_na_val,   \* CombinedRankEnsemble.fill_na_val: <<>> is None, <<v>> is v
    rank_combination_mode, \* rank_combination_mode / combination_mode of the ensemble
    fused          \* the fusion that ran: path, mode, fill_val, filled ranks, output

fusionVars == <<dfs, n_unfilt, fill_na_val, rank_combination_mode, fused>>

\* BaseDFSparseRecommender: a fitted recommender and its last get_recommendations call
VARIABLES
    train_df,           \* training frame: number of rows of each (user, item) pair
    user_train_counts,  \* cache of _separate_heavy_users: [computed, counts]
    reco_call,          \* arguments of the get_recommendations call
    reco_out            \* its queries to _get_recommendations_flat_unfilt and its result

recoVars == <<train_df, user_train_counts, reco_call, reco_out>>

\* CascadeEnsemble: stage two's model and the last unfiltered output
VARIABLES
    stage_two_predict,  \* recommenders[1].model.predict, over encoded (user, item)
    cascade_out         \* stage one's frame and the frame the cascade returned

cascadeVars == <<stage_two_predict, cascade_out>>

\* FactorizationRecommender / LightFMRecommender: one fit_with_early_stop call
VARIABLES
    es_call,           \* arguments of the call and the class whose method runs
    es_pc,             \* position of the call: "idle", "loop", "after", "done"
    model,             \* self.model: <<>> is None, <<m>> a model
    model_checkpoint,  \* self.model_checkpoint: [kind, val]
    fit_epochs,        \* the stored epoch count (fit_params['epochs'] / _set_epochs)
    runner,            \* locals of early_stopping_runner
    scores             \* the validation scores score_func returned, in step order

earlyStopVars == <<es_call, es_pc, model, model_checkpoint, fit_epochs, runner, scores>>

\* BaseDFSparseRecommender: the id columns of a training frame and one
\* remove_unseen_users / remove_unseen_items call
VARIABLES
    fl_train,   \* distinct values of the user and item id columns of train_df
    fl_call     \* the call that ran: its operation, its input and what it returned

filterVars == <<fl_train, fl_call>>

\* SubdivisionEnsembleBase: fitted sub-models and one query-time aggregation
VARIABLES
    sd_models,  \* per sub-model: the ids it knows and the flat frame it answers with
    sd_cfg,     \* normalize_predictions and what the all_users / all_items attribute is
    sd_out      \* the aggregation that ran: its arguments and what it produced

subdivVars == <<sd_models, sd_cfg, sd_out>>

\* BaseDFRecommender: a flat recommendation frame and its trip to lists and back
VARIABLES
    rt_df,   \* the flat frame: rows [user, item, prediction]
    rt_out   \* the conversion that ran: cutoff, lists frame, flat frame or exception

roundTripVars == <<rt_df, rt_out>>

\* CombinedSimilRecoEns: one fit call over the batches of the item vocabulary
VARIABLES
    sf_call,     \* the vocabulary size, batch_size and whether a similarity_queue is given
    sf_pc,       \* position of fit
    sf_i,        \* the loop index i of enumerate
    sf_queue,    \* the messages put on similarity_queue so far
    sf_model,    \* the calls made on the underlying similarity-table model so far
    sf_got       \* the messages the consumer has taken off similarity_queue so far

similFitVars == <<sf_call, sf_pc, sf_i, sf_queue, sf_model, sf_got>>

\* SubdivisionEnsembleBase: one pooled operation (fit or query-time aggregation)
VARIABLES
    pl_call,     \* the operation, the backend of its pool, n_models and max_concurrent
    pl_pc,       \* the calling thread: "idle", "waiting", "returned", "raised"
    pl_tasks,    \* the state of the task of each sub-model
    pl_order,    \* the indices of the finished tasks in the order they finished
    sub_models   \* self.sub_models: what each entry was fitted on

poolVars == <<pl_call, pl_pc, pl_tasks, pl_order, sub_models>>

\* MaxMemoryMonitor: one monitor, its sampling thread and the code that uses it
VARIABLES
    mm_user,           \* who uses the monitor and where it is: [mode, pc]
    mm_referenced,     \* the user still holds a reference to the monitor
    mm_run_condition,  \* MaxMemoryMonitor._run_condition
    mm_thread,         \* the sampling thread: "none", "running", "halted"
    mm_peak_memory,    \* MaxMemoryMonitor.peak_memory: <<>> is None
    mm_deleted         \* __del__ has run

monitorVars == <<mm_user, mm_referenced, mm_run_condition, mm_thread, mm_peak_memory,
                 mm_deleted>>

\* LightFMRecommender: two instances, the parameter dictionaries they and their
\* class hold, and the last call on the first instance
VARIABLES
    lf_heap,   \* the dictionaries, by the object that holds them
    lf_a,      \* the first instance: its attributes (dictionaries by reference)
    lf_b,      \* a second instance of the same class, constructed with the defaults
    lf_call    \* the last call on lf_a: operation, arguments and how it ended

lfmVars == <<lf_heap, lf_a, lf_b, lf_call>>

\* SubdivisionEnsembleBase: an ensemble and the last call on it
VARIABLES
    en_self,   \* n_models, the ensemble's model parameters and its sub-models
    en_call    \* the last call: operation and keyword arguments

ensembleParamsVars == <<en_self, en_call>>

\* one evaluation report
VARIABLES
    ev_call,   \* the method called and its arguments
    ev_out     \* the report: how the call ended and the rows, in order

evalVars == <<ev_call, ev_out>>

\* CombinationEnsembleBase: an ensemble of fitted recommenders
VARIABLES
    cb_self,      \* the ensemble: its members and the data it shares with the first
    cb_warnings,  \* the warnings already shown (the registry of the module)
    cb_call       \* the last call on the ensemble

combinationVars == <<cb_self, cb_warnings, cb_call>>

\* MaxMemoryMonitor: the statements of the sampling thread and of stop()
VARIABLES
    pk_run_condition,  \* MaxMemoryMonitor._run_condition
    pk_peak_memory,    \* MaxMemoryMonitor.peak_memory
    pk_threads,        \* per thread: position and the operands of max it has read
    pk_hist            \* the highest reading measured, the highest peak stored, what stop returned

peakVars == <<pk_run_condition, pk_peak_memory, pk_threads, pk_hist>>

\* FactorizationRecommender.get_similar_items: one call
VARIABLES
    si_call,     \* the arguments of the call and the item embeddings
    si_out       \* what the call returned

similItemsVars == <<si_call, si_out>>

\* LightFMRecommender.get_recommendations_exact_and_slow: one call
VARIABLES
    ch_call,     \* the arguments of the call and the size of the item vocabulary
    ch_out       \* the chunk size passed on and the batches made of the users

chunkVars == <<ch_call, ch_out>>

\* the components of the first group and of the second group
coreVars == <<searchVars, fusionVars, recoVars, cascadeVars>>
moreVars == <<earlyStopVars, filterVars, subdivVars, roundTripVars, similFitVars, poolVars,
              monitorVars>>

\* the components of the third group
lateVars == <<lfmVars, ensembleParamsVars, evalVars, combinationVars, peakVars,
              similItemsVars, chunkVars>>

vars == <<coreVars, moreVars, lateVars>>

\* what each component leaves alone
outsideSearch == <<fusionVars, recoVars, cascadeVars, moreVars, lateVars>>
outsideFusion == <<searchVars, recoVars, cascadeVars, moreVars, lateVars>>
outsideReco == <<searchVars, fusionVars, cascadeVars, moreVars, lateVars>>
outsideCascade == <<searchVars, fusionVars, recoVars, moreVars, lateVars>>
outsideEarlyStop ==
    <<coreVars, lateVars, filterVars, subdivVars, roundTripVars, similFitVars, poolVars, monitorVars>>
outsideFilter ==
    <<coreVars, lateVars, earlyStopVars, subdivVars, roundTripVars, similFitVars, poolVars, monitorVars>>
outsideSubdiv ==
    <<coreVars, lateVars, earlyStopVars, filterVars, roundTripVars, similFitVars, poolVars, monitorVars>>
outsideRoundTrip ==
    <<coreVars, lateVars, earlyStopVars, filterVars, subdivVars, similFitVars, poolVars, monitorVars>>
outsideSimilFit ==
    <<coreVars, lateVars, earlyStopVars, filterVars, subdivVars, roundTripVars, poolVars, monitorVars>>
outsidePool ==
    <<coreVars, lateVars, earlyStopVars, filterVars, subdivVars, roundTripVars, similFitVars, monitorVars>>
outsideMonitor ==
    <<coreVars, lateVars, earlyStopVars, filterVars, subdivVars, roundTripVars, similFitVars, poolVars>>
outsideLfm ==
    <<coreVars, moreVars, ensembleParamsVars, evalVars, combinationVars, peakVars,
      similItemsVars, chunkVars>>
outsideEnsembleParams ==
    <<coreVars, moreVars, lfmVars, evalVars, combinationVars, peakVars,
      similItemsVars, chunkVars>>
outsideEval ==
    <<coreVars, moreVars, lfmVars, ensembleParamsVars, combinationVars, peakVars,
      similItemsVars, chunkVars>>
outsideCombination ==
    <<coreVars, moreVars, lfmVars, ensembleParamsVars, evalVars, peakVars,
      similItemsVars, chunkVars>>
outsidePeak ==
    <<coreVars, moreVars, lfmVars, ensembleParamsVars, evalVars, combinationVars,
      similItemsVars, chunkVars>>
outsideSimilItems ==
    <<coreVars, moreVars, lfmVars, ensembleParamsVars, evalVars, combinationVars, peakVars,
      chunkVars>>
outsideChunk ==
    <<coreVars, moreVars, lfmVars, ensembleParamsVars, evalVars, combinationVars, peakVars,
      similItemsVars>>

\* the control words _check_interrupt looks for in the first line
Keywords == {"stop", "pause", "update"}

\* a first line is modelled by the set of control words it contains
FileStates == [exists : {TRUE}, words : SUBSET Keywords]
                 \cup {[exists |-> FALSE, words |-> {}]}

\* positions at which the trial's own work (instantiate, fit, evaluate, record) runs
WorkPcs == {"init_pipeline", "fit", "eval", "record"}

\* 1.0 in units of 1/MetricSteps: the loss objective_func returns from its handler
WorstLoss == MetricSteps

\* no rank fusion is under way
FusionIdle ==
    /\ dfs = <<>>
    /\ n_unfilt = 0
    /\ fill_na_val = <<>>
    /\ rank_combination_mode = "hmean"
    /\ fused = [path |-> "none"]

\* no recommender is fitted
RecoIdle ==
    /\ train_df = <<>>
    /\ user_train_counts = [computed |-> FALSE, counts |-> <<>>]
    /\ reco_call = [status |-> "none"]
    /\ reco_out = [status |-> "none"]

\* no cascade is built
CascadeIdle ==
    /\ stage_two_predict = <<>>
    /\ cascade_out = [status |-> "none"]

\* no search is under way
SearchIdle ==
    /\ interrupt_message_file = "None"
    /\ fs_file = [exists |-> FALSE, words |-> {}]
    /\ message = {}
    /\ pc = "done"
    /\ exc = "none"
    /\ paused = FALSE
    /\ report_df = 0
    /\ losses = <<>>
    /\ all_metrics = <<>>

\* the empty checkpoint slot (self.model_checkpoint = None)
NoCheckpoint == [kind |-> "none", val |-> <<>>]

\* no fit_with_early_stop call is under way
EarlyStopIdle ==
    /\ es_call = [variant |-> "none"]
    /\ es_pc = "done"
    /\ model = <<>>
    /\ model_checkpoint = NoCheckpoint
    /\ fit_epochs = 0
    /\ runner = [cur_epoch |-> 0]
    /\ scores = <<>>

CoreIdle == SearchIdle /\ FusionIdle /\ RecoIdle /\ CascadeIdle
\* no id filter was called
FilterIdle ==
    /\ fl_train = [users |-> {}, items |-> {}]
    /\ fl_call = [op |-> "none"]

\* no subdivision ensemble answers a query
SubdivIdle ==
    /\ sd_models = <<>>
    /\ sd_cfg = [normalize_predictions |-> TRUE, attr |-> "none"]
    /\ sd_out = [op |-> "none"]

\* no frame is being converted
RoundTripIdle ==
    /\ rt_df = {}
    /\ rt_out = [op |-> "none"]

\* no CombinedSimilRecoEns.fit call is under way
SimilFitIdle ==
    /\ sf_call = [n_items |-> 0]
    /\ sf_pc = "done"
    /\ sf_i = 0
    /\ sf_queue = <<>>
    /\ sf_model = <<>>
    /\ sf_got = <<>>

\* no pooled operation is under way
PoolIdle ==
    /\ pl_call = [op |-> "none"]
    /\ pl_pc = "returned"
    /\ pl_tasks = <<>>
    /\ pl_order = <<>>
    /\ sub_models = <<>>

\* no monitor exists
MonitorIdle ==
    /\ mm_user = [mode |-> "none", pc |-> "done"]
    /\ mm_referenced = FALSE
    /\ mm_run_condition = FALSE
    /\ mm_thread = "none"
    /\ mm_peak_memory = <<>>
    /\ mm_deleted = FALSE

MoreIdle ==
    EarlyStopIdle /\ FilterIdle /\ SubdivIdle /\ RoundTripIdle /\ SimilFitIdle /\ PoolIdle
       /\ MonitorIdle

\* no LightFMRecommender was constructed
LfmIdle ==
    /\ lf_heap = <<>>
    /\ lf_a = [name |-> "none"]
    /\ lf_b = [name |-> "none"]
    /\ lf_call = [op |-> "none"]

\* no subdivision ensemble was constructed
EnsembleParamsIdle ==
    /\ en_self = [n_models |-> 0]
    /\ en_call = [op |-> "none"]

\* no evaluation was asked for
EvalIdle ==
    /\ ev_call = [method |-> "none"]
    /\ ev_out = [status |-> "none"]

\* no combination ensemble was constructed
CombinationIdle ==
    /\ cb_self = [n_recommenders |-> 0]
    /\ cb_warnings = {}
    /\ cb_call = [op |-> "none"]

\* no monitor is followed statement by statement
PeakIdle ==
    /\ pk_run_condition = FALSE
    /\ pk_peak_memory = 0
    /\ pk_threads = <<>>
    /\ pk_hist = [measured |-> 0]

\* no get_similar_items call of a factorization recommender is under way
SimilItemsIdle ==
    /\ si_call = [n_simil |-> 0]
    /\ si_out = [status |-> "none"]

\* no get_recommendations_exact_and_slow call is under way
ChunkIdle ==
    /\ ch_call = [chunksize |-> 0]
    /\ ch_out = [status |-> "none"]

LateIdle ==
    /\ LfmIdle /\ EnsembleParamsIdle /\ EvalIdle /\ CombinationIdle /\ PeakIdle
    /\ SimilItemsIdle /\ ChunkIdle

InitSearch ==
    /\ interrupt_message_file \in {"None", "interrupt.txt"}
    /\ fs_file \in FileStates
    /\ message = {}
    /\ pc = "idle"
    /\ exc = "none"
    /\ paused = FALSE
    /\ report_df = 0
    /\ losses = <<>>
    /\ all_metrics = <<>>

(***************************************************************************)
(* The operator of the search edits, creates or deletes the interrupt file *)
(* at any moment.                                                          *)
(***************************************************************************)
OperatorWritesFile ==
    /\ interrupt_message_file # "None"
    /\ pc \notin {"done", "aborted"}
    /\ \E f \in FileStates : f # fs_file /\ fs_file' = f
    /\ UNCHANGED outsideSearch
    /\ UNCHANGED <<interrupt_message_file, message, pc, exc, paused,
                   report_df, losses, all_metrics>>

(***************************************************************************)
(* The optimizer loop: n_calls calls of objective_func, one after another. *)
(***************************************************************************)
optimize_next_trial ==
    /\ pc = "idle"
    /\ Len(losses) < NCalls
    /\ pc' = "check"
    /\ exc' = "none"
    /\ message' = {}
    /\ paused' = FALSE
    /\ report_df' = 0
    /\ UNCHANGED outsideSearch
    /\ UNCHANGED <<interrupt_message_file, fs_file, losses, all_metrics>>

optimize_return ==
    /\ pc = "idle"
    /\ Len(losses) = NCalls
    /\ pc' = "done"
    /\ UNCHANGED outsideSearch
    /\ UNCHANGED <<interrupt_message_file, fs_file, message, exc, paused,
                   report_df, losses, all_metrics>>

(***************************************************************************)
(* objective_func: everything between `try:` and `except Exception` raises *)
(* into the handler of objective_func.                                     *)
(***************************************************************************)
raise_in_try(e) ==
    /\ exc' = e
    /\ pc' = "except"

\* _check_interrupt, the guard: a configured file that exists is opened
check_interrupt ==
    /\ pc = "check"
    /\ IF interrupt_message_file # "None" /\ fs_file.exists
         THEN pc' = "read"
         ELSE pc' = "init_pipeline"
    /\ UNCHANGED outsideSearch
    /\ UNCHANGED <<interrupt_message_file, fs_file, message, exc, paused,
                   report_df, losses, all_metrics>>

\* _check_interrupt: open, readline and the if / elif chain on the message
check_interrupt_read ==
    /\ pc = "read"
    /\ IF ~fs_file.exists
         THEN /\ raise_in_try("FileNotFoundError")
              /\ UNCHANGED <<message, paused>>
         ELSE /\ message' = fs_file.words
              /\ IF "stop" \in fs_file.words
                   THEN raise_in_try("InterruptedError") /\ UNCHANGED paused
                   ELSE IF "pause" \in fs_file.words
                     THEN pc' = "sleep" /\ paused' = TRUE /\ UNCHANGED exc
                     ELSE IF "update" \in fs_file.words
                       THEN raise_in_try("NotImplementedError") /\ UNCHANGED paused
                       ELSE pc' = "init_pipeline" /\ UNCHANGED <<exc, paused>>
    /\ UNCHANGED outsideSearch
    /\ UNCHANGED <<interrupt_message_file, fs_file, report_df, losses, all_metrics>>

\* the pause loop without the recursive re-check: the trial starts right after it
pause_loop_exit_no_recheck == "init_pipeline"

\* where the search goes when the message read in the pause loop holds no 'pause':
\* the recursive self._check_interrupt(), which starts at the guard again
pause_loop_exit == "check"

\* _check_interrupt, one round of the pause loop: sleep(1), open, readline
check_interrupt_poll ==
    /\ pc = "sleep"
    /\ IF ~fs_file.exists
         THEN /\ raise_in_try("FileNotFoundError")
              /\ UNCHANGED message
         ELSE /\ message' = fs_file.words
              /\ pc' = IF "pause" \in fs_file.words THEN "sleep" ELSE pause_loop_exit
              /\ UNCHANGED exc
    /\ UNCHANGED outsideSearch
    /\ UNCHANGED <<interrupt_message_file, fs_file, paused, report_df, losses,
                   all_metrics>>

\* pipeline = self.init_pipeline(values)
init_pipeline ==
    /\ pc = "init_pipeline"
    /\ \/ pc' = "fit" /\ UNCHANGED exc
       \/ raise_in_try("TrialError")
    /\ UNCHANGED outsideSearch
    /\ UNCHANGED <<interrupt_message_file, fs_file, message, paused, report_df,
                   losses, all_metrics>>

\* pipeline.fit(self.data_dict['training'])
fit_pipeline ==
    /\ pc = "fit"
    /\ \/ pc' = "eval" /\ UNCHANGED exc
       \/ raise_in_try("TrialError")
    /\ UNCHANGED outsideSearch
    /\ UNCHANGED <<interrupt_message_file, fs_file, message, paused, report_df,
                   losses, all_metrics>>

\* report_df = pipeline.eval_on_test_by_ranking(...); loss = 1 - report_df.loc[...]
eval_pipeline ==
    /\ pc = "eval"
    /\ \/ \E m \in 0..MetricSteps :
            /\ report_df' = m
            /\ pc' = "record"
            /\ UNCHANGED exc
       \/ raise_in_try("TrialError") /\ UNCHANGED report_df
    /\ UNCHANGED outsideSearch
    /\ UNCHANGED <<interrupt_message_file, fs_file, message, paused, losses,
                   all_metrics>>

\* _record_all_metrics appends the trial's row
record_all_metrics(target_loss) ==
    all_metrics' = Append(all_metrics,
                          [trial |-> Len(losses) + 1, target_loss |-> target_loss])

\* self._record_all_metrics(...); return loss
record_and_return ==
    /\ pc = "record"
    /\ record_all_metrics(MetricSteps - report_df)
    /\ losses' = Append(losses, MetricSteps - report_df)
    /\ pc' = "idle"
    /\ UNCHANGED outsideSearch
    /\ UNCHANGED <<interrupt_message_file, fs_file, message, exc, paused, report_df>>

\* the handler with its commented-out `raise e` active: the exception leaves
\* objective_func and ends the search
except_handler_reraise ==
    /\ pc = "except"
    /\ pc' = "aborted"
    /\ UNCHANGED outsideSearch
    /\ UNCHANGED <<interrupt_message_file, fs_file, message, exc, paused,
                   report_df, losses, all_metrics>>

\* except Exception as e: logger.exception(e); logger.error(values); return 1.0
except_handler ==
    /\ pc = "except"
    /\ losses' = Append(losses, WorstLoss)
    /\ pc' = "idle"
    /\ UNCHANGED outsideSearch
    /\ UNCHANGED <<interrupt_message_file, fs_file, message, exc, paused,
                   report_df, all_metrics>>

NextSearch ==
    \/ OperatorWritesFile
    \/ optimize_next_trial
    \/ optimize_return
    \/ check_interrupt
    \/ check_interrupt_read
    \/ check_interrupt_poll
    \/ init_pipeline
    \/ fit_pipeline
    \/ eval_pipeline
    \/ record_and_return
    \/ except_handler

InitSearchSpec == InitSearch /\ FusionIdle /\ RecoIdle /\ CascadeIdle /\ MoreIdle /\ LateIdle

SpecSearch == InitSearchSpec /\ [][NextSearch]_vars

(***************************************************************************)
(* Properties of the search harness.                                       *)
(***************************************************************************)

\* C1: a 'stop' read by _check_interrupt aborts the search: the InterruptedError
\* leaves objective_func (the search is aborted) and no loss is returned for it.
C1_StopAbortsSearch ==
    exc = "InterruptedError" => pc = "aborted"

\* C2: an exception raised while instantiating, fitting or evaluating a trial's
\* pipeline goes to the handler with all_metrics and losses untouched; the handler
\* returns the worst loss 1.0, adds no row for the trial to all_metrics and hands
\* control back to the optimizer loop.
C2_TrialExceptionCaught ==
    [][ /\ (exc' = "TrialError" /\ exc # "TrialError")
            => /\ pc \in {"init_pipeline", "fit", "eval"}
               /\ pc' = "except"
               /\ all_metrics' = all_metrics
               /\ losses' = losses
        /\ (exc = "TrialError" /\ pc = "except" /\ pc' # "except")
            => /\ losses' = Append(losses, WorstLoss)
               /\ all_metrics' = all_metrics
               /\ \A i \in 1..Len(all_metrics') : all_metrics'[i].trial # Len(losses')
               /\ pc' = "idle"
      ]_vars

\* a search without interrupt file whose first trial failed and whose second trial
\* was fitted, evaluated and recorded
C2_Witness ==
    /\ interrupt_message_file = "None"
    /\ Len(losses) = 2
    /\ losses[1] = WorstLoss
    /\ Len(all_metrics) = 1
    /\ all_metrics[1].trial = 2

\* C3: trial work only runs when the last line read for the trial holds no 'pause',
\* and the pause loop is left (other than by an error) only into a fresh check of
\* the file from the start, never straight into the trial.
C3_PauseHonoured ==
    [][ /\ pc' \in WorkPcs => "pause" \notin message'
        /\ (pc = "sleep" /\ pc' \notin {"sleep", "except"}) => pc' = "check"
      ]_vars

\* a trial that was paused and, after the file was edited, is being fitted
C3_Witness ==
    paused /\ pc = "fit"

\* C4: an 'update' read by _check_interrupt fails loudly: the NotImplementedError
\* reaches the caller of the search.
C4_UpdateFailsLoudly ==
    exc = "NotImplementedError" => pc = "aborted"

\* C5: a read that finds the interrupt file absent, or its first line free of
\* control words, is a no-op: at the start of a trial the trial proceeds, in the
\* pause loop the loop ends and the file is checked afresh.
C5_AbsentOrUnknownIsNoop ==
    [][ (/\ fs_file' = fs_file
         /\ pc \in {"check", "read", "sleep"}
         /\ interrupt_message_file # "None"
         /\ (~fs_file.exists \/ fs_file.words = {}))
        => pc' \in {"init_pipeline", "read", "check"} ]_vars

(***************************************************************************)
(* Rank fusion: CombinedRankEnsemble.calc_dfs_and_combine_scores and the   *)
(* three paths that call it.                                               *)
(***************************************************************************)
\* total number of rows the members return in one fusion
MaxRows == 3
\* largest unfiltered width asked of the members
MaxUnfilt == 2

\* values of the groupby column (users, or source items) and of the item column
Groups == {"u1", "u2"}
Items == {"a", "b"}
\* the candidate (group, item) pairs: two items for u1, one for u2
Pairs == {<<"u1", "a">>, <<"u1", "b">>, <<"u2", "a">>}
\* raw scores of the members: enough values for every order, ties included
Scores == 1..Cardinality(Items)
\* the ensemble's member list
recommenders == <<"lfm", "cooc", "feat">>
Members == 1..Len(recommenders)
\* the supported rank_combination_mode values
Modes == {"mean", "max", "min", "gmean", "hmean"}
\* configured fill_na_val: None, 0 and two ranks
FillNaVals == {<<>>, <<0>>, <<1>>, <<MaxUnfilt + 2>>}

\* a member frame is a function from the (group, item) pairs of its rows to scores
TotalRows(d) == Cardinality({x \in Members \X Pairs : x[2] \in DOMAIN d[x[1]]})
GroupRows(df, g) == {q \in DOMAIN df : q[1] = g}

\* an ensemble with any fill_na_val and the default mode 'hmean', asked for any width
InitFusion ==
    /\ dfs = [i \in Members |-> <<>>]
    /\ n_unfilt \in 1..MaxUnfilt
    /\ fill_na_val \in FillNaVals
    /\ rank_combination_mode = "hmean"
    /\ fused = [path |-> "none"]

\* an ensemble with any rank_combination_mode, without fill_na_val, asked for the
\* largest width
InitCombine ==
    /\ dfs = [i \in Members |-> <<>>]
    /\ n_unfilt = MaxUnfilt
    /\ fill_na_val = <<>>
    /\ rank_combination_mode \in Modes
    /\ fused = [path |-> "none"]

\* df = func(): member i returns one more row, inside its window of n_unfilt rows
\* per group
member_returns_row ==
    /\ fused.path = "none"
    /\ TotalRows(dfs) < MaxRows
    /\ \E i \in Members, p \in Pairs, s \in Scores :
          /\ p \notin DOMAIN dfs[i]
          /\ Cardinality(GroupRows(dfs[i], p[1])) < n_unfilt
          /\ dfs' = [dfs EXCEPT ![i] = @ @@ (p :> s)]
    /\ UNCHANGED <<n_unfilt, fill_na_val, rank_combination_mode, fused>>
    /\ UNCHANGED outsideFusion

(***************************************************************************)
(* Exact arithmetic on the reciprocal ranks: a value is a reduced fraction *)
(* <<numerator, denominator>>.                                             *)
(***************************************************************************)
RECURSIVE GCD(_, _)
GCD(a, b) == IF b = 0 THEN a ELSE GCD(b, a % b)

Frac(a, b) == LET g == GCD(a, b) IN <<a \div g, b \div g>>
FracAdd(x, y) == Frac(x[1] * y[2] + y[1] * x[2], x[2] * y[2])
FracMul(x, y) == Frac(x[1] * y[1], x[2] * y[2])
FracLess(x, y) == x[1] * y[2] < y[1] * x[2]

RECURSIVE FracSum(_, _)
FracSum(xs, k) == IF k = 1 THEN xs[1] ELSE FracAdd(FracSum(xs, k - 1), xs[k])

RECURSIVE FracProd(_, _)
FracProd(xs, k) == IF k = 1 THEN xs[1] ELSE FracMul(FracProd(xs, k - 1), xs[k])

\* np.mean
np_mean(xs) == LET t == FracSum(xs, Len(xs)) IN Frac(t[1], t[2] * Len(xs))
\* np.max
np_max(xs) == CHOOSE x \in {xs[k] : k \in 1..Len(xs)} :
                  \A k \in 1..Len(xs) : ~FracLess(x, xs[k])
\* np.min
np_min(xs) == CHOOSE x \in {xs[k] : k \in 1..Len(xs)} :
                  \A k \in 1..Len(xs) : ~FracLess(xs[k], x)
\* scipy.stats.gmean, given by its Len(xs)-th power (the product of the values)
scipy_gmean(xs) == FracProd(xs, Len(xs))
\* scipy.stats.hmean: n / sum(1 / x)
scipy_hmean(xs) ==
    LET t == FracSum([k \in 1..Len(xs) |-> <<xs[k][2], xs[k][1]>>], Len(xs))
    IN  Frac(Len(xs) * t[2], t[1])

\* rank_combination_function(mode), applied to one row of reciprocal ranks
rank_combination_function(mode, xs) ==
    CASE mode = "mean"  -> np_mean(xs)
      [] mode = "max"   -> np_max(xs)
      [] mode = "min"   -> np_min(xs)
      [] mode = "gmean" -> scipy_gmean(xs)
      [] mode = "hmean" -> scipy_hmean(xs)

\* df.groupby(groupby_col)[scores_col].rank(ascending=False): the average rank of
\* the row among the rows of its group, doubled to stay an integer
rank_within_group(df, p) ==
    LET grp == GroupRows(df, p[1])
    IN  2 * Cardinality({q \in grp : df[q] > df[p]})
          + Cardinality({q \in grp : df[q] = df[p]}) + 1

\* the member's frame with its scores replaced by the column rank_<i>
ranked_df(df) == {[key |-> p, rank |-> rank_within_group(df, p)] : p \in DOMAIN df}

\* pd.merge(..., how='left'): the rows of the right frame alone are dropped
pd_merge_left(left, right, i) ==
    {[key |-> x[1].key, ranks |-> x[1].ranks @@ (i :> x[2].rank)] :
         x \in {y \in left \X right : y[1].key = y[2].key}}
    \cup {l \in left : \A r \in right : r.key # l.key}

\* pd.merge(merged_df, df, on=[groupby_col, item_col], how='outer')
pd_merge(left, right, i) ==
    {[key |-> x[1].key, ranks |-> x[1].ranks @@ (i :> x[2].rank)] :
         x \in {y \in left \X right : y[1].key = y[2].key}}
    \cup {l \in left : \A r \in right : r.key # l.key}
    \cup {[key |-> r.key, ranks |-> (i :> r.rank)] :
             r \in {q \in right : \A l \in left : l.key # q.key}}

\* the loop over calc_funcs: the first frame is taken as it is, each later one merged
RECURSIVE merge_loop(_, _)
merge_loop(frames, i) ==
    IF i = 1
      THEN {[key |-> r.key, ranks |-> (1 :> r.rank)] : r \in ranked_df(frames[1])}
      ELSE pd_merge(merge_loop(frames, i - 1), ranked_df(frames[i]), i)

\* merged_df.fillna(fill_val): ranks are doubled, so is the fill value
fillna(merged, fill_val, n) ==
    {[key |-> m.key,
      ranks |-> [j \in 1..n |-> IF j \in DOMAIN m.ranks THEN m.ranks[j]
                                                         ELSE 2 * fill_val]] :
         m \in merged}

\* merged_df[scores_col] = combine_func(1 / merged_df[rank_cols].values, axis=1)
combine_ranks(filled, mode) ==
    {[key |-> m.key,
      score |-> rank_combination_function(
                    mode, [j \in DOMAIN m.ranks |-> Frac(2, m.ranks[j])])] :
         m \in filled}

\* calc_dfs_and_combine_scores: the rank columns after fillna and the returned frame
calc_dfs_and_combine_scores(frames, mode, fill_val) ==
    LET filled == fillna(merge_loop(frames, Len(frames)), fill_val, Len(frames))
    IN  [ranks |-> filled, df |-> combine_ranks(filled, mode)]

\* Python truth value of fill_na_val
Truthy(v) == v # <<>> /\ v[1] # 0

\* a fill value that forgets the + 1
reco_fill_val_no_plus_one(fna, n_rec_unfilt) ==
    IF Truthy(fna) THEN fna[1] ELSE n_rec_unfilt

\* _get_recommendations_flat_unfilt: self.fill_na_val if self.fill_na_val else (n_rec_unfilt + 1)
reco_fill_val(fna, n_rec_unfilt) ==
    IF Truthy(fna) THEN fna[1] ELSE n_rec_unfilt + 1

\* get_similar_items: self.fill_na_val if self.fill_na_val else (n_unfilt + 1)
simil_fill_val(fna, n) ==
    IF Truthy(fna) THEN fna[1] ELSE n + 1

\* CombinedSimilRecoEns.fit: fill_val=self.n_unfilt + 1
fit_fill_val(n) == n + 1

\* the call of calc_dfs_and_combine_scores on the members' frames by one path
fuse(path, fill_val) ==
    LET out == calc_dfs_and_combine_scores(dfs, rank_combination_mode, fill_val)
    IN  /\ fused.path = "none"
        /\ fused' = [path |-> path, fill_val |-> fill_val,
                     ranks |-> out.ranks, df |-> out.df]
        /\ UNCHANGED <<dfs, n_unfilt, fill_na_val, rank_combination_mode>>
        /\ UNCHANGED outsideFusion

CombinedRankEnsemble_get_recommendations_flat_unfilt ==
    fuse("recommendations", reco_fill_val(fill_na_val, n_unfilt))

CombinedRankEnsemble_get_similar_items ==
    fuse("similar_items", simil_fill_val(fill_na_val, n_unfilt))

CombinedSimilRecoEns_fit ==
    fuse("simil_ens_fit", fit_fill_val(n_unfilt))

NextFusion ==
    \/ member_returns_row
    \/ CombinedRankEnsemble_get_recommendations_flat_unfilt
    \/ CombinedRankEnsemble_get_similar_items
    \/ CombinedSimilRecoEns_fit

\* the three fusion paths, over every fill_na_val and width
InitFusionSpec == InitFusion /\ SearchIdle /\ RecoIdle /\ CascadeIdle /\ MoreIdle /\ LateIdle

SpecFusion == InitFusionSpec /\ [][NextFusion]_vars

NextCombine ==
    \/ member_returns_row
    \/ CombinedRankEnsemble_get_similar_items

\* one fusion, over every rank_combination_mode
InitCombineSpec == InitCombine /\ SearchIdle /\ RecoIdle /\ CascadeIdle /\ MoreIdle /\ LateIdle

SpecCombine == InitCombineSpec /\ [][NextCombine]_vars

(***************************************************************************)
(* Properties of the rank fusion.                                          *)
(***************************************************************************)
\* the orderings of the members
MemberOrders == {o \in [Members -> Members] : \A i, j \in Members : o[i] = o[j] => i = j}

ExpectedFillRank ==
    IF fused.path \in {"recommendations", "similar_items"} /\ Truthy(fill_na_val)
      THEN fill_na_val[1]
      ELSE n_unfilt + 1

\* C7 (as amended): a member that returned no row for a fused pair contributes rank
\* n_unfilt + 1 (reciprocal rank 1 / (n_unfilt + 1)) in CombinedSimilRecoEns.fit
\* always, and in the two CombinedRankEnsemble paths when fill_na_val is None or 0;
\* with a non-zero fill_na_val it contributes rank fill_na_val there.
C7_MissingRankAmended ==
    fused.path # "none" =>
        \A m \in fused.ranks : \A i \in Members :
            m.key \notin DOMAIN dfs[i]
               => /\ m.ranks[i] = 2 * ExpectedFillRank
                  /\ Frac(2, m.ranks[i]) = Frac(1, ExpectedFillRank)

\* C7 (as claimed): the contributed rank is n_unfilt + 1 on every path and for every
\* fill_na_val.
C7_MissingRankAlwaysWindowPlusOne ==
    fused.path # "none" =>
        \A m \in fused.ranks : \A i \in Members :
            m.key \notin DOMAIN dfs[i] => m.ranks[i] = 2 * (n_unfilt + 1)

\* a recommendation fusion without fill_na_val in which a member misses a fused pair
C7_Witness ==
    /\ fused.path = "recommendations"
    /\ ~Truthy(fill_na_val)
    /\ \E m \in fused.ranks : \E i \in Members : m.key \notin DOMAIN dfs[i]

(***************************************************************************)
(* BaseDFSparseRecommender.get_recommendations on a fitted recommender.    *)
(***************************************************************************)
\* threshold=50 in the call of _separate_heavy_users
HeavyThreshold == 50

\* the (user, item) pairs of the training vocabulary; the users are Groups
TrainPairs == Groups \X Items
\* how many training rows a pair may have: none, one, or one less than the threshold
RowCounts == {0, 1, HeavyThreshold - 1}
\* a user id that is in no training frame
UnseenUser == "u9"
\* the user_ids arguments: None (given |-> FALSE) or a list of ids
UserIdArgs ==
    {[given |-> FALSE, ids |-> <<>>]}
      \cup {[given |-> TRUE, ids |-> a] :
               a \in {<<"u1">>, <<"u2", UnseenUser, "u1">>, <<UnseenUser>>}}

Range(f) == {f[x] : x \in DOMAIN f}
Min(a, b) == IF a < b THEN a ELSE b

RECURSIVE SumOver(_, _)
SumOver(f, S) ==
    IF S = {} THEN 0
    ELSE LET x == CHOOSE y \in S : TRUE IN f[x] + SumOver(f, S \ {x})

\* all_users(): train_df[uid_source_col].unique()
all_users(df) == {u \in Groups : \E i \in Items : df[<<u, i>>] > 0}
\* all_items(): train_df[iid_source_col].unique()
all_items(df) == {i \in Items : \E u \in Groups : df[<<u, i>>] > 0}

\* train_df.userid.value_counts(): the number of training rows of each seen user
value_counts(df) ==
    [u \in all_users(df) |-> SumOver([i \in Items |-> df[<<u, i>>]], Items)]

\* a fitted recommender: _prep_for_fit left user_train_counts at None, or an earlier
\* get_recommendations call has computed it from this train_df
InitReco ==
    /\ train_df \in [TrainPairs -> RowCounts]
    /\ user_train_counts \in {[computed |-> FALSE, counts |-> <<>>],
                              [computed |-> TRUE, counts |-> value_counts(train_df)]}
    /\ reco_call = [status |-> "none"]
    /\ reco_out = [status |-> "none"]

\* _filter_array: array[np.isin(array, filter_array)]
filter_array(array, filter) == SelectSeq(array, LAMBDA x : x \in filter)

\* remove_unseen_users
remove_unseen_users(user_ids) == filter_array(user_ids, all_users(train_df))

\* a heavy user by a strict comparison
is_heavy_strict(count, threshold) == count > threshold

\* user_counts >= threshold
is_heavy(count, threshold) == count >= threshold

Max(S) == CHOOSE x \in S : \A y \in S : y <= x

\* _separate_heavy_users, given the counts; heavy_users_max is <<>> for NaN (the
\* max of no count)
separate_heavy_users(counts, user_ids, threshold) ==
    LET index == {u \in DOMAIN counts : u \in Range(user_ids)}
        heavy == {u \in index : is_heavy(counts[u], threshold)}
    IN  [heavy_users |-> heavy,
         normal_users |-> {u \in index : counts[u] < threshold},
         heavy_users_max |-> IF heavy = {} THEN <<>>
                             ELSE <<Max({counts[u] : u \in heavy})>>]

\* n_rec_unfilt + heavy_users_max, NaN when heavy_users_max is
nan_add(n, x) == IF x = <<>> THEN <<>> ELSE <<n + x[1]>>

\* what _get_recommendations_flat_unfilt may return: for each user of the group its
\* n best items of item_ids (all of them when there are fewer), with any scores
unfilt_frames(users, items, n) ==
    LET k == Min(n, Cardinality(items))
        per_user == UNION {[S -> Scores] : S \in {T \in SUBSET items : Cardinality(T) = k}}
    IN  {UNION {{[user |-> u, item |-> i, prediction |-> c[u][i]] : i \in DOMAIN c[u]} :
                    u \in users} :
            c \in [users -> per_user]}

\* the rows kept are those the merge did give a rating
remove_training_from_df_inverted(flat_df) ==
    LET merged == {[row |-> r,
                    rating |-> IF train_df[<<r.user, r.item>>] > 0 THEN "rating" ELSE "NaN"] :
                       r \in flat_df}
    IN  {m.row : m \in {x \in merged : x.rating # "NaN"}}

\* _remove_training_from_df: left merge with train_df on (user, item), then the rows
\* whose rating column is null
remove_training_from_df(flat_df) ==
    LET merged == {[row |-> r,
                    rating |-> IF train_df[<<r.user, r.item>>] > 0 THEN "rating" ELSE "NaN"] :
                       r \in flat_df}
    IN  {m.row : m \in {x \in merged : x.rating = "NaN"}}

\* the orders sort_values(sort_col, ascending=False) may put a group's rows in
sorted_rows(rows) ==
    {q \in [1..Cardinality(rows) -> rows] :
        /\ \A a, b \in DOMAIN q : q[a] = q[b] => a = b
        /\ \A a, b \in DOMAIN q : a < b => q[a].prediction >= q[b].prediction}

\* _recos_flat_to_lists: per user the first n_cutoff items and scores of the sorted
\* frame; one frame for each order the sort may give to equal scores
recos_flat_to_lists(df, n_cutoff) ==
    LET users == {r.user : r \in df}
        rows(u) == {r \in df : r.user = u}
        orders == {o \in [users -> UNION {sorted_rows(rows(u)) : u \in users}] :
                      \A u \in users : o[u] \in sorted_rows(rows(u))}
        cut(q) == SubSeq(q, 1, Min(n_cutoff, Len(q)))
    IN  {{[user |-> u,
           items |-> [k \in DOMAIN cut(o[u]) |-> cut(o[u])[k].item],
           predictions |-> [k \in DOMAIN cut(o[u]) |-> cut(o[u])[k].prediction]] :
              u \in users} :
            o \in orders}

\* get_recommendations with item_ids=None
get_recommendations ==
    /\ reco_out.status = "none"
    /\ \E user_ids \in UserIdArgs, n_rec \in 1..Cardinality(Items),
          n_rec_unfilt \in 1..MaxUnfilt, exclude_training \in BOOLEAN,
          results_format \in {"flat", "lists"} :
        LET uids == IF user_ids.given THEN Range(remove_unseen_users(user_ids.ids))
                                      ELSE all_users(train_df)
            counts == IF user_train_counts.computed THEN user_train_counts.counts
                                                    ELSE value_counts(train_df)
            sep == separate_heavy_users(counts, [u \in uids |-> u], HeavyThreshold)
            groups == <<[user_ids |-> sep.heavy_users,
                         n_rec_unfilt |-> nan_add(n_rec_unfilt, sep.heavy_users_max)],
                        [user_ids |-> sep.normal_users,
                         n_rec_unfilt |-> <<n_rec_unfilt>>]>>
            queried == SelectSeq(groups, LAMBDA g : g.user_ids # {})
            answers(g) == IF g.user_ids = {} THEN {{}}
                          ELSE unfilt_frames(g.user_ids, all_items(train_df),
                                             g.n_rec_unfilt[1])
        IN  /\ reco_call' = [status |-> "called", user_ids |-> user_ids, n_rec |-> n_rec,
                             n_rec_unfilt |-> n_rec_unfilt,
                             exclude_training |-> exclude_training,
                             results_format |-> results_format]
            /\ user_train_counts' = [computed |-> TRUE, counts |-> counts]
            /\ IF queried = <<>>
                 THEN \* pd.concat of an empty list
                      reco_out' = [status |-> "ValueError", queries |-> queried]
                 ELSE \E heavy_df \in answers(groups[1]), normal_df \in answers(groups[2]) :
                        LET recos_flat == heavy_df \cup normal_df
                            kept == IF exclude_training
                                      THEN remove_training_from_df(recos_flat)
                                      ELSE recos_flat
                        IN  \E result \in IF results_format = "flat" THEN {kept}
                                          ELSE recos_flat_to_lists(kept, n_rec) :
                              reco_out' = [status |-> "ok", queries |-> queried,
                                           unfilt |-> recos_flat, result |-> result]
    /\ UNCHANGED train_df
    /\ UNCHANGED outsideReco

NextReco == get_recommendations

InitRecoSpec == InitReco /\ SearchIdle /\ FusionIdle /\ CascadeIdle /\ MoreIdle /\ LateIdle

SpecReco == InitRecoSpec /\ [][NextReco]_vars

(***************************************************************************)
(* Properties of get_recommendations.                                      *)
(***************************************************************************)
\* the (user, item) pairs of a result, flat or lists
ResultPairs ==
    IF reco_call.results_format = "flat"
      THEN {<<r.user, r.item>> : r \in reco_out.result}
      ELSE UNION {{<<l.user, l.items[k]>> : k \in DOMAIN l.items} : l \in reco_out.result}

\* C8: with exclude_training=True the result, flat or lists, holds no (user, item)
\* pair that has a row in the training frame, whatever score the pair was given.
C8_TrainingExcluded ==
    (reco_out.status = "ok" /\ reco_call.exclude_training)
        => \A p \in ResultPairs : train_df[p] = 0

\* a lists result with exclude_training=True whose unfiltered frame held a training
\* pair and of which a row is left
C8_Witness ==
    /\ reco_out.status = "ok"
    /\ reco_call.exclude_training
    /\ reco_call.results_format = "lists"
    /\ \E r \in reco_out.unfilt : train_df[<<r.user, r.item>>] > 0
    /\ ResultPairs # {}

\* the training-seen users a call asks for, and their numbers of training rows
RequestedSeen ==
    IF reco_call.user_ids.given
      THEN {u \in Range(reco_call.user_ids.ids) : u \in all_users(train_df)}
      ELSE all_users(train_df)
TrainCount(u) == SumOver([i \in Items |-> train_df[<<u, i>>]], Items)

\* C9: the requested training-seen users with at least 50 training rows are queried
\* together, first, with width n_rec_unfilt + their largest count; the others are
\* queried together with width n_rec_unfilt; a group without user is not queried.
C9_HeavyUsersWidened ==
    reco_out.status # "none" =>
        LET heavy == {u \in RequestedSeen : TrainCount(u) >= HeavyThreshold}
            normal == {u \in RequestedSeen : TrainCount(u) < HeavyThreshold}
            heavy_q == IF heavy = {} THEN <<>>
                       ELSE <<[user_ids |-> heavy,
                               n_rec_unfilt |-> <<reco_call.n_rec_unfilt
                                       + Max({TrainCount(u) : u \in heavy})>>]>>
            normal_q == IF normal = {} THEN <<>>
                        ELSE <<[user_ids |-> normal,
                                n_rec_unfilt |-> <<reco_call.n_rec_unfilt>>]>>
        IN  reco_out.queries = heavy_q \o normal_q

\* a call that asks for a user with exactly 50 training rows and for a lighter one
C9_Witness ==
    /\ reco_out.status = "ok"
    /\ Len(reco_out.queries) = 2
    /\ \E u \in reco_out.queries[1].user_ids : TrainCount(u) = HeavyThreshold
    /\ reco_out.queries[1].n_rec_unfilt[1] > reco_out.queries[2].n_rec_unfilt[1]

(***************************************************************************)
(* CascadeEnsemble: recommenders[0] proposes, recommenders[1] re-scores.   *)
(***************************************************************************)
\* the label encoders of the shared matrix builder: id -> index
uid_encoder == [u \in Groups |-> IF u = "u1" THEN 0 ELSE 1]
iid_encoder == [i \in Items |-> IF i = "a" THEN 0 ELSE 1]
EncodedPairs == Range(uid_encoder) \X Range(iid_encoder)

\* a cascade whose stage two predicts any score for any encoded (user, item)
InitCascade ==
    /\ stage_two_predict \in [EncodedPairs -> Scores]
    /\ cascade_out = [status |-> "none"]

\* mat_builder.add_encoded_cols(df): the frame with the encoded id columns added
add_encoded_cols(df) ==
    {[user |-> r.user, item |-> r.item, prediction |-> r.prediction,
      uid |-> uid_encoder[r.user], iid |-> iid_encoder[r.item]] : r \in df}

\* predict_on_df without the assignment of the prediction column
predict_on_df_keeps_scores(df) ==
    {[user |-> r.user, item |-> r.item, prediction |-> r.prediction] :
        r \in add_encoded_cols(df)}

\* LightFMRecommender.predict_on_df: the prediction column is overwritten with
\* model.predict on the encoded ids, the encoded columns are dropped
predict_on_df(df) ==
    {[user |-> r.user, item |-> r.item,
      prediction |-> stage_two_predict[<<r.uid, r.iid>>]] :
        r \in add_encoded_cols(df)}

\* CascadeEnsemble._get_recommendations_flat_unfilt
CascadeEnsemble_get_recommendations_flat_unfilt ==
    /\ cascade_out.status = "none"
    /\ \E user_ids \in SUBSET Groups \ {{}}, n_rec_unfilt \in 1..MaxUnfilt :
         \E recos_df \in unfilt_frames(user_ids, Items, n_rec_unfilt) :
            cascade_out' = [status |-> "ok", stage_one |-> recos_df,
                            df |-> predict_on_df(recos_df)]
    /\ UNCHANGED stage_two_predict
    /\ UNCHANGED outsideCascade

NextCascade == CascadeEnsemble_get_recommendations_flat_unfilt

InitCascadeSpec == InitCascade /\ SearchIdle /\ FusionIdle /\ RecoIdle /\ MoreIdle /\ LateIdle

SpecCascade == InitCascadeSpec /\ [][NextCascade]_vars

(***************************************************************************)
(* Properties of the cascade.                                              *)
(***************************************************************************)
\* C10: the cascade's unfiltered output holds one row for each (user, item) pair of
\* stage one's frame and no other row, and the score of each row is stage two's
\* prediction for that pair.
C10_CascadeOverridesScores ==
    cascade_out.status = "ok" =>
        /\ {<<r.user, r.item>> : r \in cascade_out.df}
              = {<<r.user, r.item>> : r \in cascade_out.stage_one}
        /\ Cardinality(cascade_out.df) = Cardinality(cascade_out.stage_one)
        /\ \A r \in cascade_out.df :
              r.prediction = stage_two_predict[<<uid_encoder[r.user], iid_encoder[r.item]>>]

\* an output in which a pair's score differs from the score stage one gave it
C10_Witness ==
    /\ cascade_out.status = "ok"
    /\ \E r \in cascade_out.stage_one : \E q \in cascade_out.df :
          /\ q.user = r.user
          /\ q.item = r.item
          /\ q.prediction # r.prediction

(***************************************************************************)
(* fit_with_early_stop (FactorizationRecommender, LightFMRecommender)      *)
(* driving early_stopping_runner.                                          *)
(***************************************************************************)
\* the largest epochs_max of the calls
MaxEpochs == 5
\* validation scores run over 0..MaxScore
MaxScore == 2

ValidScores == 0..MaxScore
StopPatiences == {1, 2, 3}
EpochSteps == {1, 2}
DeclineThresholds == {0, 1}
Variants == {"factorization", "lightfm"}

\* a model the engine fitted: the data it was fitted on and the epochs it was trained for
FittedModel(data, epochs) == <<[data |-> data, epochs |-> epochs]>>

InitEarlyStop ==
    /\ es_call \in [variant : Variants, refit_on_all : BOOLEAN,
                    epochs_max : {MaxEpochs - 2, MaxEpochs}, epochs_step : EpochSteps,
                    stop_patience : StopPatiences,
                    decline_threshold : DeclineThresholds]
    /\ es_pc = "idle"
    \* the recommender is fresh or was fitted before the call
    /\ model \in {<<>>, FittedModel("prior", 1)}
    /\ fit_epochs = IF model = <<>> THEN 0 ELSE 1
    /\ model_checkpoint = NoCheckpoint
    /\ runner = [cur_epoch |-> 0]
    /\ scores = <<>>

\* fit_with_early_stop up to the call of early_stopping_runner
fit_with_early_stop_call ==
    /\ es_pc = "idle"
    /\ es_pc' = "loop"
    \* only FactorizationRecommender clears self.model
    /\ model' = IF es_call.variant = "factorization" THEN <<>> ELSE model
    /\ model_checkpoint' = NoCheckpoint
    /\ runner' = [cur_epoch |-> 0, best |-> <<>>, max_epoch |-> 0, patience |-> 0]
    /\ UNCHANGED <<es_call, fit_epochs, scores>>
    /\ UNCHANGED outsideEarlyStop

\* fit_partial: a full fit on the internal split when there is no model,
\* an incremental fit of the live model otherwise
fit_partial(m, epochs) ==
    IF m = <<>> THEN FittedModel("internal", epochs)
    ELSE FittedModel(m[1].data, m[1].epochs + epochs)

\* fit_partial with no model goes through fit, which stores the epochs (LightFM)
fit_partial_stored_epochs(variant, m, stored, epochs) ==
    IF variant = "lightfm" /\ m = <<>> THEN epochs ELSE stored

\* a snapshot that shares the live model object
no_copy(m) == [kind |-> "alias", val |-> m]

\* deepcopy(self.model)
deepcopy(m) == [kind |-> "copy", val |-> m]

\* the model a checkpoint slot stands for, given the live model
checkpoint_model(cp, live) ==
    IF cp.kind = "alias" THEN live ELSE cp.val

check_point_func(refit_on_all, m, slot) ==
    IF ~refit_on_all THEN deepcopy(m) ELSE slot

\* the runner: a score is a new best when none was seen or it exceeds the best
new_best(score, best) == best = <<>> \/ score > best[1]

\* the runner: a step fails to improve when it does not exceed the best by the threshold
non_improving(score, best, threshold) ==
    best # <<>> /\ ~(score > best[1] /\ score - best[1] >= threshold)

\* the patience counter keeps counting over an improving step
patience_never_reset(patience, score, best, threshold) ==
    IF non_improving(score, best, threshold) THEN patience + 1 ELSE patience

\* the runner: the patience counter counts consecutive non-improving steps
patience_counter(patience, score, best, threshold) ==
    IF non_improving(score, best, threshold) THEN patience + 1 ELSE 0

\* one iteration of early_stopping_runner: score_func, the comparison with the
\* best score, check_point_func and the stop test
early_stopping_runner_step ==
    /\ es_pc = "loop"
    /\ \E cur_score \in ValidScores :
        LET step == es_call.epochs_step
            cur_epoch == runner.cur_epoch + step
            fitted == fit_partial(model, step)
            is_best == new_best(cur_score, runner.best)
            patience == patience_counter(runner.patience, cur_score, runner.best,
                                         es_call.decline_threshold)
        IN  /\ scores' = Append(scores, cur_score)
            /\ model' = fitted
            /\ fit_epochs' = fit_partial_stored_epochs(es_call.variant, model,
                                                      fit_epochs, step)
            /\ model_checkpoint' =
                  IF is_best
                  THEN check_point_func(es_call.refit_on_all, fitted, model_checkpoint)
                  ELSE model_checkpoint
            /\ runner' = [cur_epoch |-> cur_epoch,
                          best |-> IF is_best THEN <<cur_score>> ELSE runner.best,
                          max_epoch |-> IF is_best THEN cur_epoch ELSE runner.max_epoch,
                          patience |-> patience]
            /\ es_pc' = IF patience >= es_call.stop_patience
                           \/ cur_epoch >= es_call.epochs_max
                        THEN "after" ELSE "loop"
    /\ UNCHANGED es_call
    /\ UNCHANGED outsideEarlyStop

\* fit_with_early_stop after the runner returned max_epoch
fit_with_early_stop_finish ==
    /\ es_pc = "after"
    /\ es_pc' = "done"
    /\ fit_epochs' = runner.max_epoch
    /\ IF ~es_call.refit_on_all
       THEN /\ model' = checkpoint_model(model_checkpoint, model)
            /\ model_checkpoint' = NoCheckpoint
       ELSE /\ model' = FittedModel("all", runner.max_epoch)
            /\ UNCHANGED model_checkpoint
    /\ UNCHANGED <<es_call, runner, scores>>
    /\ UNCHANGED outsideEarlyStop

NextEarlyStop ==
    \/ fit_with_early_stop_call
    \/ early_stopping_runner_step
    \/ fit_with_early_stop_finish

InitEarlyStopSpec == InitEarlyStop /\ CoreIdle /\ LateIdle /\ FilterIdle /\ SubdivIdle /\ RoundTripIdle /\ SimilFitIdle /\ PoolIdle /\ MonitorIdle

SpecEarlyStop == InitEarlyStopSpec /\ [][NextEarlyStop]_vars

(***************************************************************************)
(* Claims about early stopping, stated over the whole score sequence.      *)
(***************************************************************************)
\* the best of the first k scores
RECURSIVE RunMax(_)
RunMax(k) == IF k = 1 THEN scores[1]
             ELSE IF scores[k] > RunMax(k - 1) THEN scores[k] ELSE RunMax(k - 1)

\* step k did not exceed the best of the steps before it by the threshold
NonImprovingAt(k) ==
    k > 1 /\ ~(scores[k] > RunMax(k - 1)
               /\ scores[k] - RunMax(k - 1) >= es_call.decline_threshold)

\* the number of consecutive non-improving steps that end at step k
RECURSIVE Trailing(_)
Trailing(k) == IF k = 0 \/ ~NonImprovingAt(k) THEN 0 ELSE 1 + Trailing(k - 1)

\* the stop rule holds at step k
StopAt(k) ==
    \/ Trailing(k) >= es_call.stop_patience
    \/ k * es_call.epochs_step >= es_call.epochs_max

LastImproving(n) == Max({k \in 1..n : ~NonImprovingAt(k)})

\* the epoch counts of the steps at which the best score was observed
BestEpochs ==
    {k * es_call.epochs_step : k \in {j \in 1..Len(scores) : scores[j] = RunMax(Len(scores))}}

\* C11: the loop runs while the stop rule (stop_patience consecutive non-improving
\* steps, or epochs_max epochs) holds at no step so far and ends at the first
\* step at which it holds; the epoch count the runner returns is the one of a
\* step with the best observed score; a stop by patience comes exactly
\* stop_patience steps after the last improving step.
C11_EarlyStopTermination ==
    /\ es_pc = "loop" => \A k \in 1..Len(scores) : ~StopAt(k)
    /\ es_pc \in {"after", "done"} /\ es_call.variant # "none" =>
          LET n == Len(scores)
          IN  /\ n >= 1
              /\ StopAt(n)
              /\ \A k \in 1..(n - 1) : ~StopAt(k)
              /\ runner.max_epoch \in BestEpochs
              /\ Trailing(n) >= es_call.stop_patience
                    => n - LastImproving(n) = es_call.stop_patience

\* a declining-then-flat sequence with stop_patience = 3 stopped the loop before
\* epochs_max, three steps after the only improving step
C11_Witness ==
    /\ es_pc = "after"
    /\ es_call.stop_patience = 3
    /\ es_call.epochs_step = 1
    /\ es_call.epochs_max = MaxEpochs
    /\ scores = <<MaxScore, 1, 1, 1>>
    /\ runner.max_epoch = 1
    /\ runner.cur_epoch = 4

\* C12: with refit_on_all = FALSE the call returns with the model as it was at
\* the step of the best score (trained up to the best epoch count, whatever
\* steps ran later), an empty checkpoint slot and the best epoch count stored;
\* with refit_on_all = TRUE the checkpoint slot stays empty throughout and the
\* call returns with one full fit on all the training data for the best epoch
\* count.
C12_BestModelIsLive ==
    /\ es_call.variant # "none" /\ es_call.refit_on_all => model_checkpoint = NoCheckpoint
    /\ es_pc = "done" /\ es_call.variant # "none" =>
          /\ fit_epochs \in BestEpochs
          /\ fit_epochs = runner.max_epoch
          /\ model_checkpoint = NoCheckpoint
          /\ IF es_call.refit_on_all
             THEN model = FittedModel("all", fit_epochs)
             ELSE \/ model = FittedModel("internal", fit_epochs)
                  \/ /\ es_call.variant = "lightfm"
                     /\ model = FittedModel("prior", 1 + fit_epochs)

\* a call without refit returned after steps that ran past the best step
C12_Witness ==
    /\ es_pc = "done"
    /\ ~es_call.refit_on_all
    /\ runner.cur_epoch > runner.max_epoch
    /\ model = FittedModel("internal", runner.max_epoch)

\* a call with refit returned after steps that ran past the best step
C12_WitnessRefit ==
    /\ es_pc = "done"
    /\ es_call.refit_on_all
    /\ runner.cur_epoch > runner.max_epoch

(***************************************************************************)
(* remove_unseen_users / remove_unseen_items / _filter_array over ids of   *)
(* more than one type.                                                     *)
(***************************************************************************)
\* the longest id array passed to a filter
MaxIds == 3

\* an id is a value of some type with a string form: the string 'a', the
\* string '7' and the integer 7
TypedIds == {[t |-> "str", s |-> "a"], [t |-> "str", s |-> "7"], [t |-> "int", s |-> "7"]}

\* numpy astype(str) of one element
astype_str(x) == [t |-> "str", s |-> x.s]

\* numpy astype(str) of an array
array_astype_str(array) == [i \in 1..Len(array) |-> astype_str(array[i])]

IdArrays == UNION {[1..n -> TypedIds] : n \in 0..MaxIds}

InitFilter ==
    /\ fl_train \in [users : SUBSET TypedIds, items : SUBSET TypedIds]
    /\ fl_call = [op |-> "none"]

\* all_users(): train_df[uid_source_col].unique().astype(str)
typed_all_users == {astype_str(x) : x \in fl_train.users}

\* all_items(): train_df[iid_source_col].unique().astype(str)
typed_all_items == {astype_str(x) : x \in fl_train.items}

\* a mask that keeps only the first occurrence of each relevant element
np_isin_first_only(array, test) ==
    [i \in 1..Len(array) |-> array[i] \in test /\ \A j \in 1..(i - 1) : array[j] # array[i]]

\* np.isin(array, test): the mask of the elements that are in test
np_isin(array, test) == [i \in 1..Len(array) |-> array[i] \in test]

\* array[relevance_mask]
RECURSIVE boolean_index(_, _, _)
boolean_index(array, mask, n) ==
    IF n = 0 THEN <<>>
    ELSE IF mask[n] THEN Append(boolean_index(array, mask, n - 1), array[n])
         ELSE boolean_index(array, mask, n - 1)

BaseDFSparseRecommender_filter_array(array, filter) ==
    LET strs == array_astype_str(array)
        relevance_mask == np_isin(strs, {astype_str(x) : x \in filter})
    IN  boolean_index(strs, relevance_mask, Len(strs))

BaseDFSparseRecommender_remove_unseen_users ==
    /\ \E user_ids \in IdArrays :
          fl_call' = [op |-> "users", in |-> user_ids,
                      out |-> BaseDFSparseRecommender_filter_array(user_ids, typed_all_users)]
    /\ UNCHANGED fl_train
    /\ UNCHANGED outsideFilter

BaseDFSparseRecommender_remove_unseen_items ==
    /\ \E item_ids \in IdArrays :
          fl_call' = [op |-> "items", in |-> item_ids,
                      out |-> BaseDFSparseRecommender_filter_array(item_ids, typed_all_items)]
    /\ UNCHANGED fl_train
    /\ UNCHANGED outsideFilter

NextFilter ==
    \/ BaseDFSparseRecommender_remove_unseen_users
    \/ BaseDFSparseRecommender_remove_unseen_items

InitFilterSpec == InitFilter /\ CoreIdle /\ LateIdle /\ EarlyStopIdle /\ SubdivIdle /\ RoundTripIdle /\ SimilFitIdle /\ PoolIdle /\ MonitorIdle

SpecFilter == InitFilterSpec /\ [][NextFilter]_vars

\* the id column the call filtered against
CallColumn == IF fl_call.op = "users" THEN fl_train.users ELSE fl_train.items

\* the positions of the input whose string form is the string form of a training id
KeptPositions ==
    {i \in 1..Len(fl_call.in) : \E v \in CallColumn : v.s = fl_call.in[i].s}

\* the j-th smallest element of a set of positions
RECURSIVE NthPosition(_, _)
NthPosition(S, j) ==
    LET m == CHOOSE x \in S : \A y \in S : x <= y
    IN  IF j = 1 THEN m ELSE NthPosition(S \ {m}, j - 1)

\* C13 (as amended): the filters return, as strings, exactly the input
\* elements whose string form is the string form of an id of the training
\* column, in their input order with duplicates kept, and an empty array when
\* there is none.
C13_FilterKeepsSeenAsStrings ==
    fl_call.op # "none" =>
        /\ Len(fl_call.out) = Cardinality(KeptPositions)
        /\ \A j \in 1..Len(fl_call.out) :
              LET x == fl_call.in[NthPosition(KeptPositions, j)]
              IN  fl_call.out[j].s = x.s /\ fl_call.out[j].t = "str"

\* C13 (as stated): the filters return exactly the input elements that occur
\* in the training vocabulary (the ids of the training column, or their string
\* forms), in their input order with duplicates kept.
C13_FilterKeepsSeenElements ==
    fl_call.op # "none" =>
        \/ fl_call.out = SelectSeq(fl_call.in, LAMBDA x : x \in CallColumn)
        \/ fl_call.out = SelectSeq(fl_call.in,
                                   LAMBDA x : x \in {astype_str(v) : v \in CallColumn})

\* a filter kept a duplicated seen id twice and dropped an unseen id between
C13_Witness ==
    /\ fl_call.op = "users"
    /\ Len(fl_call.in) = 3
    /\ fl_call.in[1] = fl_call.in[3]
    /\ fl_call.in[2] # fl_call.in[1]
    /\ fl_call.out = <<astype_str(fl_call.in[1]), astype_str(fl_call.in[1])>>

\* a filter returned an empty array
C13_WitnessEmpty ==
    /\ fl_call.op = "items"
    /\ Len(fl_call.in) = 2
    /\ fl_call.out = <<>>

(***************************************************************************)
(* SubdivisionEnsembleBase: query-time aggregation over the sub-models     *)
(* (_get_recommendations_flat, get_similar_items).                         *)
(***************************************************************************)
\* sub-model scores run over -MaxAbsScore..MaxAbsScore
MaxAbsScore == 2

\* n_models of the ensemble
NModels == 2

Sources == {"s1", "s2"}
Targets == {"t"}
SubKeys == Sources \X Targets
RawScores == (0 - MaxAbsScore)..MaxAbsScore

\* the flat frames a sub-model can answer with: at most one row per (source, target)
SubFrames == UNION {[K -> RawScores] : K \in SUBSET SubKeys}

\* a sub-model knows some ids and answers with rows of sources it knows
SubModels == {m \in [known : SUBSET Sources, frame : SubFrames] :
                 \A q \in DOMAIN m.frame : q[1] \in m.known}

InitSubdiv ==
    /\ sd_models \in [1..NModels -> SubModels]
    \* all_users / all_items is a method of BaseDFSparseRecommender, which the
    \* aggregation reads as an attribute; a sub-model type may define it as a property
    /\ sd_cfg \in [normalize_predictions : BOOLEAN, attr : {"method", "array"}]
    /\ sd_out = [op |-> "none"]

\* a float: <<n, d>> with d > 0 is n/d, <<1, 0>> is inf, <<-1, 0>> is -inf, <<0, 0>> is nan
Float(x) == <<x, 1>>
IsNan(x) == x = <<0, 0>>
Abs(x) == IF x < 0 THEN 0 - x ELSE x
Sign(x) == IF x > 0 THEN 1 ELSE IF x < 0 THEN 0 - 1 ELSE 0

\* numpy true division of the float n/1 by the float m/1
np_divide(n, m) ==
    IF m = 0 THEN <<Sign(n), 0>>
    ELSE LET num == n * Sign(m)
             den == Abs(m)
             g == GCD(Abs(num), den)
         IN  <<num \div g, den \div g>>

FloatGreater(x, y) == x[1] * y[2] > y[1] * x[2]

\* np.array(attr)[np.isin(np.array(attr), ids)]: the known ids among the
\* requested ones; a bound method makes a 0-d object array that matches nothing
known_and_requested(m, ids) ==
    IF sd_cfg.attr = "method" THEN {} ELSE m.known \cap ids

\* the sub-model's answer for the ids it was asked for
sub_model_answer(m, ids) == [q \in {k \in DOMAIN m.frame : k[1] \in ids} |-> m.frame[q]]

\* reco_df[prediction].values /= reco_df[prediction].max()
normalize(df) ==
    IF DOMAIN df = {} THEN df
    ELSE LET mx == Max({df[q] : q \in DOMAIN df})
         IN  [q \in DOMAIN df |-> np_divide(df[q], mx)]

\* _calc_recos_sub_model / _calc_simils_sub_model: a frame, or <<>> for the
\* empty pd.DataFrame() of a sub-model that was not asked
calc_sub_model(m, ids) ==
    LET wanted == known_and_requested(m, ids)
    IN  IF wanted = {} THEN <<>>
        ELSE LET df == sub_model_answer(m, wanted)
             IN  <<IF sd_cfg.normalize_predictions THEN normalize(df)
                   ELSE [q \in DOMAIN df |-> Float(df[q])]>>

\* the scores the concatenated frames hold for a key
concat_scores(frames, q) ==
    {frames[i][1][q] : i \in {j \in DOMAIN frames : frames[j] # <<>> /\ q \in DOMAIN frames[j][1]}}

\* sort_values(ascending=False) puts nan last; drop_duplicates(keep='first')
\* keeps the first row of a key
keep_first(S) ==
    LET nums == {x \in S : ~IsNan(x)}
    IN  IF nums = {} THEN <<0, 0>>
        ELSE CHOOSE x \in nums : \A y \in nums : ~FloatGreater(y, x)

\* pd.concat(...).sort_values(...).drop_duplicates(...)
concat_sort_dedup(frames) ==
    LET keys == UNION {DOMAIN frames[i][1] : i \in {j \in DOMAIN frames : frames[j] # <<>>}}
    IN  [q \in keys |-> keep_first(concat_scores(frames, q))]

\* the whole aggregation: sort_values raises KeyError when no sub-model
\* returned a frame with a prediction column
aggregate(op, ids) ==
    LET frames == [i \in DOMAIN sd_models |-> calc_sub_model(sd_models[i], ids)]
    IN  IF \A i \in DOMAIN frames : frames[i] = <<>>
        THEN [op |-> op, ids |-> ids, status |-> "KeyError", frames |-> frames]
        ELSE [op |-> op, ids |-> ids, status |-> "ok", frames |-> frames,
              merged |-> concat_sort_dedup(frames)]

SubdivisionEnsembleBase_get_recommendations_flat ==
    /\ \E user_ids \in SUBSET Sources : sd_out' = aggregate("recommendations", user_ids)
    /\ UNCHANGED <<sd_models, sd_cfg>>
    /\ UNCHANGED outsideSubdiv

SubdivisionEnsembleBase_get_similar_items ==
    /\ \E item_ids \in SUBSET Sources : sd_out' = aggregate("similar_items", item_ids)
    /\ UNCHANGED <<sd_models, sd_cfg>>
    /\ UNCHANGED outsideSubdiv

NextSubdiv ==
    \/ SubdivisionEnsembleBase_get_recommendations_flat
    \/ SubdivisionEnsembleBase_get_similar_items

InitSubdivSpec == InitSubdiv /\ CoreIdle /\ LateIdle /\ EarlyStopIdle /\ FilterIdle /\ RoundTripIdle /\ SimilFitIdle /\ PoolIdle /\ MonitorIdle

SpecSubdiv == InitSubdivSpec /\ [][NextSubdiv]_vars

\* the sub-models that contributed rows to the aggregation
Contributors == {i \in DOMAIN sd_out.frames :
                    sd_out.frames[i] # <<>> /\ DOMAIN sd_out.frames[i][1] # {}}

\* C14: with normalize_predictions on, in every aggregation that produced an
\* output the largest score every contributing sub-model brings to the merge
\* is exactly 1.0, and the merged output holds one row per (source, target)
\* pair, the one with the highest normalized score among the contributing
\* sub-models.
C14_NormalizedMaxIsOne ==
    sd_out.op # "none" /\ sd_cfg.normalize_predictions /\ sd_out.status = "ok" =>
        /\ \A i \in Contributors :
              LET df == sd_out.frames[i][1]
              IN  /\ \E q \in DOMAIN df : df[q] = Float(1)
                  /\ \A q \in DOMAIN df : ~IsNan(df[q]) /\ ~FloatGreater(df[q], Float(1))
        /\ \A q \in DOMAIN sd_out.merged :
              \A i \in Contributors :
                  q \in DOMAIN sd_out.frames[i][1]
                     => ~FloatGreater(sd_out.frames[i][1][q], sd_out.merged[q])

(***************************************************************************)
(* _recos_flat_to_lists followed by _recos_lists_to_flat.                  *)
(***************************************************************************)
\* the largest n_cutoff
MaxCutoff == 3

\* the users of the frames, in the order groupby sorts them
RtUsers == <<"u1", "u2", "u3">>
RtItems == {"a", "b", "c"}
RtScores == {1, 2}

\* the items of a user's rows: the first n items, n in 0..Cardinality(RtItems)
RtItemSets == {{}, {"a"}, {"a", "b"}, {"a", "b", "c"}}

\* the flat frames: at most one row per (user, item)
RtFrames ==
    {{[user |-> RtUsers[q[1]], item |-> q[2], prediction |-> f[q]] : q \in DOMAIN f} :
        f \in UNION {[{q \in (1..Len(RtUsers)) \X RtItems : q[2] \in shape[q[1]]} -> RtScores] :
                        shape \in [1..Len(RtUsers) -> RtItemSets]}}

InitRoundTrip ==
    /\ rt_df \in RtFrames
    /\ rt_out = [op |-> "none"]

\* the rows of the lists frame in the order of their group key
lists_rows(lists) ==
    SelectSeq([i \in 1..Len(RtUsers) |->
                  IF \E r \in lists : r.user = RtUsers[i]
                  THEN <<CHOOSE r \in lists : r.user = RtUsers[i]>> ELSE <<>>],
              LAMBDA x : x # <<>>)

\* column.values.repeat(n)
RECURSIVE np_repeat(_, _)
np_repeat(values, n) ==
    IF values = <<>> THEN <<>>
    ELSE [i \in 1..n |-> Head(values)] \o np_repeat(Tail(values), n)

\* np.concatenate(column.values)
RECURSIVE np_concatenate(_)
np_concatenate(arrays) ==
    IF arrays = <<>> THEN <<>> ELSE Head(arrays) \o np_concatenate(Tail(arrays))

\* _recos_lists_to_flat: the rows of the flat frame, or the exception raised
recos_lists_to_flat(lists) ==
    LET rows == lists_rows(lists)
    IN  IF rows = <<>> THEN [status |-> "IndexError"]
        ELSE LET n_recos == Len(rows[1][1].items)
                 users == np_repeat([i \in 1..Len(rows) |-> rows[i][1].user], n_recos)
                 items == np_concatenate([i \in 1..Len(rows) |-> rows[i][1].items])
                 preds == np_concatenate([i \in 1..Len(rows) |-> rows[i][1].predictions])
             IN  IF Len(users) # Len(items) THEN [status |-> "ValueError"]
                 ELSE [status |-> "ok",
                       flat |-> [i \in 1..Len(users) |->
                                    [user |-> users[i], item |-> items[i],
                                     prediction |-> preds[i]]]]

\* a frame goes to lists with some cutoff and comes back
flat_to_lists_to_flat ==
    /\ rt_out.op = "none"
    /\ \E n_cutoff \in 1..MaxCutoff :
        \E lists \in recos_flat_to_lists(rt_df, n_cutoff) :
            rt_out' = [op |-> "round_trip", n_cutoff |-> n_cutoff, lists |-> lists,
                       back |-> recos_lists_to_flat(lists)]
    /\ UNCHANGED rt_df
    /\ UNCHANGED outsideRoundTrip

NextRoundTrip == flat_to_lists_to_flat

InitRoundTripSpec == InitRoundTrip /\ CoreIdle /\ LateIdle /\ EarlyStopIdle /\ FilterIdle /\ SubdivIdle /\ SimilFitIdle /\ PoolIdle /\ MonitorIdle

SpecRoundTrip == InitRoundTripSpec /\ [][NextRoundTrip]_vars

\* the (item, score) pairs the frame that came back holds for a user
BackPairs(u) ==
    {<<rt_out.back.flat[i].item, rt_out.back.flat[i].prediction>> :
        i \in {j \in DOMAIN rt_out.back.flat : rt_out.back.flat[j].user = u}}

\* the sets of (item, score) pairs that are a top-k of the user's rows
TopKs(u, k) ==
    LET rows == {r \in rt_df : r.user = u}
    IN  {{<<q[i].item, q[i].prediction>> : i \in 1..Min(k, Len(q))} : q \in sorted_rows(rows)}

\* every user has the same number of rows in the lists frame
EvenLists == \A r1, r2 \in rt_out.lists : Len(r1.items) = Len(r2.items)

\* C15: a non-empty flat frame that went to lists with cutoff k and back comes
\* back holding, for every user of the frame, exactly a top-k of the user's
\* (item, score) pairs by descending score, whatever the numbers of rows of the
\* users.
C15_RoundTripIsTopK ==
    rt_out.op # "none" /\ rt_df # {} =>
        /\ rt_out.back.status = "ok"
        /\ \A i \in 1..Len(RtUsers) :
              LET u == RtUsers[i]
              IN  IF \E r \in rt_df : r.user = u
                  THEN BackPairs(u) \in TopKs(u, rt_out.n_cutoff)
                  ELSE BackPairs(u) = {}

(***************************************************************************)
(* CombinedSimilRecoEns.fit: the loop over the batches of the vocabulary,  *)
(* the similarity queue and the underlying similarity-table model.         *)
(***************************************************************************)
\* the largest item vocabulary
MaxItems == 4

\* all_training_items() of the first member: items 1..n_items
itemids(n) == [k \in 1..n |-> k]

\* batch_generator: contiguous slices of at most batch_size elements
RECURSIVE batch_generator(_, _)
batch_generator(seq, batch_size) ==
    IF seq = <<>> THEN <<>>
    ELSE IF Len(seq) <= batch_size THEN <<seq>>
         ELSE <<SubSeq(seq, 1, batch_size)>>
                 \o batch_generator(SubSeq(seq, batch_size + 1, Len(seq)), batch_size)

Batches == batch_generator(itemids(sf_call.n_items), sf_call.batch_size)

InitSimilFit ==
    /\ sf_call \in [n_items : 1..MaxItems, batch_size : 1..MaxItems,
                    queue_given : BOOLEAN]
    /\ sf_pc = "idle"
    /\ sf_i = 0
    /\ sf_queue = <<>>
    /\ sf_model = <<>>
    /\ sf_got = <<>>

\* `if similarity_queue:` a queue object is true whatever it holds, None is false
queue_truthy(call) == call.queue_given

\* put without the test of the queue
queue_put_unconditional(call, queue, msg) == Append(queue, msg)

\* similarity_queue.put(msg) under `if similarity_queue:`
queue_put(call, queue, msg) == IF queue_truthy(call) THEN Append(queue, msg) ELSE queue

\* a full fit for every batch
feed_always_fit(i) == "fit"

\* `if i==0: super().fit(...) else: super().continue_fit(...)`
feed_method(i) == IF i = 0 THEN "fit" ELSE "continue_fit"

\* fit is entered: the vocabulary is read and the loop starts
simil_fit_call ==
    /\ sf_pc = "idle"
    /\ sf_i' = 0
    /\ sf_pc' = IF Batches = <<>> THEN "end" ELSE "fuse"
    /\ UNCHANGED <<sf_call, sf_queue, sf_model, sf_got>>
    /\ UNCHANGED outsideSimilFit

\* the members' similarities of batch i are computed and fused; an error of a
\* member propagates out of fit
simil_fit_fuse_batch ==
    /\ sf_pc = "fuse"
    /\ \E raised \in BOOLEAN : sf_pc' = IF raised THEN "raised" ELSE "put"
    /\ UNCHANGED <<sf_call, sf_i, sf_queue, sf_model, sf_got>>
    /\ UNCHANGED outsideSimilFit

\* the fused batch goes to the queue in lists format
simil_fit_queue_put ==
    /\ sf_pc = "put"
    /\ sf_queue' = queue_put(sf_call, sf_queue,
                             [kind |-> "batch", items |-> Batches[sf_i + 1]])
    /\ sf_pc' = "feed"
    /\ UNCHANGED <<sf_call, sf_i, sf_model, sf_got>>
    /\ UNCHANGED outsideSimilFit

\* the fused batch is fed to the similarity-table model (fit on the first
\* batch, continue_fit on the later ones) and the loop goes on; an error of the
\* model propagates out of fit
simil_fit_feed ==
    /\ sf_pc = "feed"
    /\ \E raised \in BOOLEAN :
          IF raised
          THEN /\ sf_pc' = "raised"
               /\ UNCHANGED <<sf_i, sf_model>>
          ELSE /\ sf_model' = Append(sf_model, [method |-> feed_method(sf_i),
                                                items |-> Batches[sf_i + 1]])
               /\ sf_i' = sf_i + 1
               /\ sf_pc' = IF sf_i + 1 < Len(Batches) THEN "fuse" ELSE "end"
    /\ UNCHANGED <<sf_call, sf_queue, sf_got>>
    /\ UNCHANGED outsideSimilFit

\* after the loop: the sentinel, then return self
simil_fit_return ==
    /\ sf_pc = "end"
    /\ sf_queue' = queue_put(sf_call, sf_queue, [kind |-> "END", items |-> <<>>])
    /\ sf_pc' = "done"
    /\ UNCHANGED <<sf_call, sf_i, sf_model, sf_got>>
    /\ UNCHANGED outsideSimilFit

\* the consumer thread takes the next message off the queue
consumer_get ==
    /\ Len(sf_got) < Len(sf_queue)
    /\ sf_got' = Append(sf_got, sf_queue[Len(sf_got) + 1])
    /\ UNCHANGED <<sf_call, sf_pc, sf_i, sf_queue, sf_model>>
    /\ UNCHANGED outsideSimilFit

\* the steps of the thread that runs fit
SimilFitThread ==
    \/ simil_fit_call
    \/ simil_fit_fuse_batch
    \/ simil_fit_queue_put
    \/ simil_fit_feed
    \/ simil_fit_return

NextSimilFit ==
    \/ simil_fit_call
    \/ simil_fit_fuse_batch
    \/ simil_fit_queue_put
    \/ simil_fit_feed
    \/ simil_fit_return
    \/ consumer_get

InitSimilFitSpec ==
    InitSimilFit /\ CoreIdle /\ LateIdle /\ EarlyStopIdle /\ FilterIdle /\ SubdivIdle /\ RoundTripIdle
       /\ PoolIdle
       /\ MonitorIdle

SpecSimilFit == InitSimilFitSpec /\ [][NextSimilFit]_vars

\* the fitting thread and the consumer thread are both scheduled for as long as
\* they have a step to take
SpecSimilFitFair ==
    SpecSimilFit /\ WF_vars(SimilFitThread) /\ WF_vars(consumer_get)

\* the batches the messages on the queue carry, END excluded
QueuedBatches == SelectSeq(sf_queue, LAMBDA m : m.kind = "batch")

\* C16: with a queue, the messages put so far are the batches in batch order,
\* and once fit has returned they are all k batches followed by one END; END
\* is only ever the last message and is on the queue only when every batch
\* has been fed to the model; without a queue nothing is put.
C16_QueueBatchesThenEnd ==
    sf_call.n_items > 0 =>
        /\ ~sf_call.queue_given => sf_queue = <<>>
        /\ sf_call.queue_given =>
              /\ \A j \in 1..Len(QueuedBatches) : QueuedBatches[j].items = Batches[j]
              /\ \A j \in 1..Len(sf_queue) :
                    sf_queue[j].kind = "END" =>
                        /\ j = Len(sf_queue)
                        /\ j = Len(Batches) + 1
                        /\ Len(sf_model) = Len(Batches)
              /\ sf_pc = "done" =>
                    /\ Len(sf_queue) = Len(Batches) + 1
                    /\ sf_queue[Len(sf_queue)].kind = "END"

\* fit returned after more than one batch with a queue
C16_Witness ==
    /\ sf_pc = "done"
    /\ sf_call.queue_given
    /\ Len(Batches) = 3
    /\ Len(sf_queue) = 4
    /\ sf_queue[4].kind = "END"

\* fit returned after more than one batch without a queue
C16_WitnessNoQueue ==
    /\ sf_pc = "done"
    /\ ~sf_call.queue_given
    /\ Len(Batches) = 2
    /\ sf_queue = <<>>

\* C17: the calls on the similarity-table model are a full fit on the first
\* batch followed by one continue_fit per later batch, in batch order, and
\* when fit has returned every batch has been fed.
C17_FitOnceThenContinue ==
    sf_call.n_items > 0 =>
        /\ Len(sf_model) <= Len(Batches)
        /\ \A j \in 1..Len(sf_model) :
              /\ sf_model[j].items = Batches[j]
              /\ sf_model[j].method = IF j = 1 THEN "fit" ELSE "continue_fit"
        /\ sf_pc = "done" =>
              /\ Len(sf_model) = Len(Batches)
              /\ Len(sf_model) >= 1

\* fit returned after a full fit and two continue_fit calls
C17_Witness ==
    /\ sf_pc = "done"
    /\ Len(sf_model) = 3
    /\ sf_model[1].method = "fit"
    /\ sf_model[3].method = "continue_fit"

\* the consumer has taken 'END' off the queue
ConsumerGotEnd == \E j \in 1..Len(sf_got) : sf_got[j].kind = "END"

\* C29: whenever fit is given a similarity_queue, the consumer draining the
\* queue eventually receives 'END', also when a member's similarity
\* computation or the underlying fit / continue_fit raises.
C29_ConsumerGetsEnd ==
    (sf_call.n_items > 0 /\ sf_call.queue_given) ~> ConsumerGotEnd

\* whenever fit is given a similarity_queue, eventually the consumer receives
\* 'END' or fit has ended with an error
C29_EndUnlessRaised ==
    (sf_call.n_items > 0 /\ sf_call.queue_given) ~> (ConsumerGotEnd \/ sf_pc = "raised")

\* fit ended with an error after a batch went to the queue and the consumer
\* has taken everything that was put
C29_WitnessRaised ==
    /\ sf_pc = "raised"
    /\ sf_call.queue_given
    /\ Len(sf_queue) >= 1
    /\ sf_got = sf_queue
    /\ ~ConsumerGotEnd

(***************************************************************************)
(* SubdivisionEnsembleBase: the worker pool of fit (pool.imap inside a     *)
(* with block) and of the query-time aggregation (pool.map).               *)
(***************************************************************************)
\* the largest n_models and max_concurrent of a pooled operation
MaxPoolModels == 3
\* the CPU count of the machine (N_CPUS)
N_CPUS == 2

Backends == {"threads", "processes"}

InitPool ==
    \* the query-time aggregation always asks for a thread pool
    /\ pl_call \in {c \in [op : {"fit", "query"}, backend : Backends,
                           n_models : 1..MaxPoolModels,
                           max_concurrent : 1..MaxPoolModels] :
                       c.op = "query" => c.backend = "threads"}
    /\ pl_pc = "idle"
    /\ pl_tasks = <<>>
    /\ pl_order = <<>>
    /\ sub_models = <<>>

Min3(a, b, c) == Min(a, Min(b, c))

\* n_concurrent(): the number of workers of the pool
n_concurrent(call) == Min3(call.n_models, call.max_concurrent, N_CPUS)

\* the tasks in a given state
TasksIn(st) == {i \in DOMAIN pl_tasks : pl_tasks[i] = st}

\* the pool is created and the tasks of all the sub-models are submitted:
\* zip(range(n_models), partitions, repeat(fit_params)) in fit, the indices
\* of the sub-models in the aggregation
pool_submit ==
    /\ pl_pc = "idle"
    /\ pl_pc' = "waiting"
    /\ pl_tasks' = [i \in 1..pl_call.n_models |-> "queued"]
    /\ UNCHANGED <<pl_call, pl_order, sub_models>>
    /\ UNCHANGED outsidePool

\* a free worker takes the next task of the queue
worker_start_task ==
    /\ pl_pc = "waiting"
    /\ TasksIn("queued") # {}
    /\ Cardinality(TasksIn("running")) < n_concurrent(pl_call)
    /\ LET i == CHOOSE x \in TasksIn("queued") : \A y \in TasksIn("queued") : x <= y
       IN  pl_tasks' = [pl_tasks EXCEPT ![i] = "running"]
    /\ UNCHANGED <<pl_call, pl_pc, pl_order, sub_models>>
    /\ UNCHANGED outsidePool

\* a running task returns or raises; a task of a thread pool also runs to
\* its end after the pool was terminated
worker_finish_task ==
    /\ \E i \in TasksIn("running") :
        \E outcome \in {"done", "failed"} :
            /\ pl_tasks' = [pl_tasks EXCEPT ![i] = outcome]
            /\ pl_order' = Append(pl_order, i)
    /\ UNCHANGED <<pl_call, pl_pc, sub_models>>
    /\ UNCHANGED outsidePool

\* results in the order the tasks finished
imap_unordered(order, n) == order

\* pool.imap / pool.map: results in the order of the inputs
imap(order, n) == [i \in 1..n |-> i]

\* the entry of sub_models a task returns: the model fitted on a partition
\* with the shared fit_params
fitted_sub_model(i) == [partition |-> i, fit_params |-> "shared"]

\* Pool.terminate() on leaving the with block: queued tasks are dropped,
\* worker processes are killed, worker threads cannot be stopped
terminate(tasks, backend) ==
    [i \in DOMAIN tasks |->
        IF tasks[i] = "queued" THEN "dropped"
        ELSE IF tasks[i] = "running" /\ backend = "processes" THEN "killed"
        ELSE tasks[i]]

\* fit: list(pool.imap(...)) has every result, the with block is left and
\* sub_models is replaced
fit_returns ==
    /\ pl_pc = "waiting"
    /\ pl_call.op = "fit"
    /\ \A i \in DOMAIN pl_tasks : pl_tasks[i] = "done"
    /\ sub_models' = [k \in 1..pl_call.n_models |->
                         fitted_sub_model(imap(pl_order, pl_call.n_models)[k])]
    /\ pl_pc' = "returned"
    /\ UNCHANGED <<pl_call, pl_tasks, pl_order>>
    /\ UNCHANGED outsidePool

\* fit: the iterator of imap reaches the result of a failed task (the results
\* before it are there), the exception leaves the with block and fit
fit_raises ==
    /\ pl_pc = "waiting"
    /\ pl_call.op = "fit"
    /\ \E j \in DOMAIN pl_tasks :
          /\ pl_tasks[j] = "failed"
          /\ \A i \in 1..(j - 1) : pl_tasks[i] = "done"
    /\ pl_tasks' = terminate(pl_tasks, pl_call.backend)
    /\ pl_pc' = "raised"
    /\ UNCHANGED <<pl_call, pl_order, sub_models>>
    /\ UNCHANGED outsidePool

\* the aggregation: pool.map returns or raises once every task has finished
query_returns_or_raises ==
    /\ pl_pc = "waiting"
    /\ pl_call.op = "query"
    /\ \A i \in DOMAIN pl_tasks : pl_tasks[i] \in {"done", "failed"}
    /\ pl_pc' = IF \E i \in DOMAIN pl_tasks : pl_tasks[i] = "failed"
                THEN "raised" ELSE "returned"
    /\ UNCHANGED <<pl_call, pl_tasks, pl_order, sub_models>>
    /\ UNCHANGED outsidePool

NextPool ==
    \/ pool_submit
    \/ worker_start_task
    \/ worker_finish_task
    \/ fit_returns
    \/ fit_raises
    \/ query_returns_or_raises

InitPoolSpec ==
    InitPool /\ CoreIdle /\ LateIdle /\ EarlyStopIdle /\ FilterIdle /\ SubdivIdle /\ RoundTripIdle
       /\ SimilFitIdle
       /\ MonitorIdle

SpecPool == InitPoolSpec /\ [][NextPool]_vars

\* C18: when fit has returned, sub_models has n_models entries and its i-th
\* entry is the model fitted on the i-th partition with the shared fit
\* parameters, whatever the order in which the tasks finished.
C18_SubModelsInInputOrder ==
    pl_call.op = "fit" /\ pl_pc = "returned" =>
        /\ Len(sub_models) = pl_call.n_models
        /\ \A i \in 1..pl_call.n_models :
              sub_models[i] = [partition |-> i, fit_params |-> "shared"]

\* fit returned although the second task finished before the first
C18_Witness ==
    /\ pl_call.op = "fit"
    /\ pl_pc = "returned"
    /\ pl_call.n_models = 3
    /\ pl_order[1] = 2
    /\ Len(sub_models) = 3

\* C19: never more than min(n_models, max_concurrent, N_CPUS) tasks of
\* sub-models run at the same time, and the calling thread goes on (fit or
\* the aggregation returns or raises) only when no task it dispatched is
\* still running.
C19_BoundedAndJoined ==
    pl_call.op # "none" =>
        /\ Cardinality(TasksIn("running")) <= Min3(pl_call.n_models, pl_call.max_concurrent, N_CPUS)
        /\ pl_pc \in {"returned", "raised"} => TasksIn("running") = {}

\* the part of C19 about the number of tasks that run at the same time
C19_Bounded ==
    pl_call.op # "none" =>
        Cardinality(TasksIn("running")) <= Min3(pl_call.n_models, pl_call.max_concurrent, N_CPUS)

(***************************************************************************)
(* MaxMemoryMonitor and the log_time_and_shape decorator that uses it.     *)
(***************************************************************************)
\* virtual_memory().percent runs over 1..MaxMemory
MaxMemory == 6

MemoryLevels == 1..MaxMemory

\* the monitor is used by the decorator's inner function or directly
InitMonitor ==
    /\ mm_user \in [mode : {"decorator", "direct"}, pc : {"start"}]
    /\ mm_referenced = FALSE
    /\ mm_run_condition = FALSE
    /\ mm_thread = "none"
    /\ mm_peak_memory = <<>>
    /\ mm_deleted = FALSE

\* _measure_peak: max(self.peak_memory, self._current())
measure_peak(peak, current) == IF peak[1] > current THEN peak ELSE <<current>>

\* MaxMemoryMonitor().start(), from inner or from a direct user
MaxMemoryMonitor_start ==
    /\ mm_user.pc = "start"
    /\ mm_run_condition' = TRUE
    /\ mm_peak_memory' = <<0>>
    /\ mm_thread' = "running"
    /\ mm_referenced' = TRUE
    /\ mm_user' = [mm_user EXCEPT !.pc = "working"]
    /\ UNCHANGED mm_deleted
    /\ UNCHANGED outsideMonitor

\* one pass of _thread_loop: the test of _run_condition, then a sample and a sleep
thread_loop ==
    /\ mm_thread = "running"
    /\ IF mm_run_condition
       THEN /\ \E current \in MemoryLevels :
                  mm_peak_memory' = measure_peak(mm_peak_memory, current)
            /\ UNCHANGED mm_thread
       ELSE /\ mm_thread' = "halted"
            /\ UNCHANGED mm_peak_memory
    /\ UNCHANGED <<mm_user, mm_referenced, mm_run_condition, mm_deleted>>
    /\ UNCHANGED outsideMonitor

\* stop(): clears _run_condition, samples once more and returns (current, peak),
\* where current is read again for the return
MaxMemoryMonitor_stop(next_pc) ==
    /\ mm_run_condition' = FALSE
    /\ \E current \in MemoryLevels, cur_mem \in MemoryLevels :
          /\ mm_peak_memory' = measure_peak(mm_peak_memory, current)
          /\ mm_user' = [mode |-> mm_user.mode, pc |-> next_pc, cur_mem |-> cur_mem]
    /\ UNCHANGED <<mm_thread, mm_deleted>>

\* inner: fn returns, then mem_monitor.stop(), the log message and the return,
\* which drops inner's reference
inner_fn_returns ==
    /\ mm_user = [mode |-> "decorator", pc |-> "working"]
    /\ MaxMemoryMonitor_stop("returned")
    /\ mm_referenced' = FALSE
    /\ UNCHANGED outsideMonitor

\* inner: fn raises; nothing catches it in inner, whose reference is dropped
inner_fn_raises ==
    /\ mm_user = [mode |-> "decorator", pc |-> "working"]
    /\ mm_user' = [mm_user EXCEPT !.pc = "raised"]
    /\ mm_referenced' = FALSE
    /\ UNCHANGED <<mm_run_condition, mm_thread, mm_peak_memory, mm_deleted>>
    /\ UNCHANGED outsideMonitor

\* a direct user calls stop() and keeps its reference
user_stops ==
    /\ mm_user = [mode |-> "direct", pc |-> "working"]
    /\ MaxMemoryMonitor_stop("stopped")
    /\ UNCHANGED mm_referenced
    /\ UNCHANGED outsideMonitor

\* a direct user lets go of the monitor, stopped or not
user_drops_reference ==
    /\ mm_user.mode = "direct"
    /\ mm_user.pc \in {"working", "stopped"}
    /\ mm_referenced
    /\ mm_referenced' = FALSE
    /\ mm_user' = [mm_user EXCEPT !.pc = IF mm_user.pc = "working" THEN "dropped" ELSE "stopped"]
    /\ UNCHANGED <<mm_run_condition, mm_thread, mm_peak_memory, mm_deleted>>
    /\ UNCHANGED outsideMonitor

\* the monitor can be collected when nothing refers to it: the user does not,
\* and the sampling thread, whose target is the bound method
\* self._thread_loop, has ended
collectable == ~mm_referenced /\ mm_thread = "halted"

\* __del__, run when the monitor is collected
MaxMemoryMonitor_del ==
    /\ collectable
    /\ ~mm_deleted
    /\ mm_deleted' = TRUE
    /\ mm_run_condition' = FALSE
    /\ UNCHANGED <<mm_user, mm_referenced, mm_thread, mm_peak_memory>>
    /\ UNCHANGED outsideMonitor

NextMonitor ==
    \/ MaxMemoryMonitor_start
    \/ thread_loop
    \/ inner_fn_returns
    \/ inner_fn_raises
    \/ user_stops
    \/ user_drops_reference
    \/ MaxMemoryMonitor_del

InitMonitorSpec ==
    InitMonitor /\ CoreIdle /\ LateIdle /\ EarlyStopIdle /\ FilterIdle /\ SubdivIdle /\ RoundTripIdle
       /\ SimilFitIdle /\ PoolIdle

SpecMonitor == InitMonitorSpec /\ [][NextMonitor]_vars

\* the sampling thread is scheduled again and again, and an object nothing
\* refers to is collected
SpecMonitorFair ==
    SpecMonitor /\ WF_vars(thread_loop) /\ WF_vars(MaxMemoryMonitor_del)

\* stop() has been called on the monitor
StopCalled == mm_user.pc \in {"returned", "stopped"}

\* the user started the monitor and no longer refers to it
Unreferenced == mm_thread # "none" /\ ~mm_referenced

\* C20: once stop has been called, or the user of the monitor no longer
\* refers to it (so after every call of a decorated function, returned or
\* raised), the sampling loop eventually halts.
C20_LoopEventuallyHalts == (StopCalled \/ Unreferenced) ~> (mm_thread = "halted")

\* the part of C20 about stop()
C20_StopHaltsLoop == StopCalled ~> (mm_thread = "halted")

(***************************************************************************)
(* LightFMRecommender: parameter dictionaries, fit, fit_partial and the    *)
(* cached co-occurrence matrix.                                            *)
(***************************************************************************)
\* LightFM() objects constructed by one instance
MaxBuilt == 2
\* training runs (one fit and the fit_partial calls after it) on one model
MaxRuns == 3
\* default_fit_params['epochs']
DefaultEpochs == 100

\* the objects that hold a dictionary: the class attributes, the attributes of
\* the two instances, and the local fit_params of fit_partial
Slots == {"default_model_params", "default_fit_params", "a.model_params", "a.fit_params",
          "b.model_params", "b.fit_params", "fit_params"}

\* {}
EmptyDict == [k \in {} |-> 0]

\* BaseDFRecommender.default_model_params and LightFMRecommender.default_fit_params
\* (verbose is left out; it is never read by the operations modelled)
default_model_params == EmptyDict
default_fit_params ==
    [epochs |-> DefaultEpochs, item_features |-> "None", num_threads |-> N_CPUS]

\* the dictionaries before any instance exists
ClassHeap ==
    [s \in Slots |->
        IF s = "default_model_params" THEN default_model_params
        ELSE IF s = "default_fit_params" THEN default_fit_params
        ELSE EmptyDict]

\* d.update(u), on the values
d_update(d, u) ==
    [k \in (DOMAIN d) \cup (DOMAIN u) |-> IF k \in DOMAIN u THEN u[k] ELSE d[k]]

\* a mutant of dict_copy: no copy is made, the same dictionary is referred to
dict_alias(h, ref, fresh) == [heap |-> h, ref |-> ref]

\* d.copy(): a new dictionary with the same items, held by `fresh`
dict_copy(h, ref, fresh) == [heap |-> [h EXCEPT ![fresh] = h[ref]], ref |-> fresh]

\* _dict_update(d, u): d = d.copy(); if u: d.update(u); return d
\* (u is a value: None and {} are both falsy and are both EmptyDict here)
dict_update(h, ref, u, fresh) ==
    LET c == dict_copy(h, ref, fresh)
    IN  IF u # EmptyDict
        THEN [heap |-> [c.heap EXCEPT ![c.ref] = d_update(c.heap[c.ref], u)], ref |-> c.ref]
        ELSE c

\* self._set_model_params(params)
set_model_params(h, self, params) ==
    LET r == dict_update(h, self.model_params, params, self.name \o ".model_params")
    IN  [heap |-> r.heap, self |-> [self EXCEPT !.model_params = r.ref]]

\* self._set_fit_params(params)
set_fit_params(h, self, params) ==
    LET r == dict_update(h, self.fit_params, params, self.name \o ".fit_params")
    IN  [heap |-> r.heap, self |-> [self EXCEPT !.fit_params = r.ref]]

\* the keys of d other than those in ks
dict_without(d, ks) == [k \in (DOMAIN d) \ ks |-> d[k]]

\* LightFMRecommender.set_params(**params)
LightFMRecommender_set_params(h, self, params) ==
    LET s1 == IF "epochs" \in DOMAIN params
              THEN set_fit_params(h, self, [epochs |-> params["epochs"]])
              ELSE [heap |-> h, self |-> self]
        s2 == IF "use_sample_weight" \in DOMAIN params
              THEN [s1 EXCEPT !.self.use_sample_weight = params["use_sample_weight"]]
              ELSE s1
    IN  set_model_params(s2.heap, s2.self,
                         dict_without(params, {"epochs", "use_sample_weight"}))

\* LightFMRecommender.__init__(use_sample_weight, external_features_params,
\* model_params=, fit_params=): the attributes of the new instance
\* (<<>> is None, <<v>> is v; a feature matrix is named by a string, "None" if None)
LightFMRecommender_init(h, name, use_sample_weight, external_features_mat, model_params, fit_params) ==
    LET cm == dict_copy(h, "default_model_params", name \o ".model_params")
        cf == dict_copy(cm.heap, "default_fit_params", name \o ".fit_params")
        self0 == [name |-> name,
                  use_sample_weight |-> use_sample_weight,
                  sample_weight |-> <<>>,
                  cooc_mat |-> <<>>,
                  model_params |-> cm.ref,
                  fit_params |-> cf.ref,
                  train_df |-> <<>>,
                  model |-> <<>>,
                  sparse_mat_builder |-> <<>>,
                  train_mat |-> <<>>,
                  external_features_mat |-> external_features_mat,
                  n_built |-> 0]
        s1 == set_model_params(cf.heap, self0, model_params)
    IN  set_fit_params(s1.heap, s1.self, fit_params)

\* the observation sets fit is given, and the number of items each one has
Observations == {"obs1", "obs2", "obs3"}
n_cols(obs) == IF obs = "obs3" THEN 3 ELSE 2

\* sparse_mat_builder.build_sparse_interaction_matrix(train_df)
build_sparse_interaction_matrix(obs) == [of |-> obs, shape1 |-> n_cols(obs), format |-> "csr"]

\* train_mat.tocoo()
tocoo(mat) == [mat EXCEPT !.format = "coo"]

\* LightFM(**model_params): a new, untrained engine object; epochs lists the
\* epochs of the training runs made on it
LightFM(model_params, id) ==
    [id |-> id, params |-> model_params, epochs |-> <<>>, item_features |-> "None",
     interactions |-> <<>>, sample_weight |-> <<>>]

\* model.fit(interactions, sample_weight=, **fit_params): training from scratch
LightFM_fit(m, interactions, sample_weight, fit_params) ==
    [m EXCEPT !.epochs = <<fit_params["epochs"]>>,
              !.item_features = fit_params["item_features"],
              !.interactions = <<interactions>>,
              !.sample_weight = sample_weight]

\* model.fit_partial(interactions, sample_weight=, **fit_params): more epochs
LightFM_fit_partial(m, interactions, sample_weight, fit_params) ==
    [m EXCEPT !.epochs = Append(@, fit_params["epochs"]),
              !.item_features = fit_params["item_features"],
              !.interactions = <<interactions>>,
              !.sample_weight = sample_weight]

\* LightFMRecommender._prep_for_fit(train_obs, **fit_params)
prep_for_fit(h, self, train_obs, fit_params) ==
    LET mat == build_sparse_interaction_matrix(train_obs)
        h1 == [h EXCEPT ![self.fit_params] =
                  d_update(@, [item_features |-> self.external_features_mat])]
        self1 == [self EXCEPT
                    !.sparse_mat_builder = <<train_obs>>,
                    !.train_df = <<train_obs>>,
                    !.train_mat = <<mat>>,
                    !.sample_weight =
                        IF self.use_sample_weight THEN <<tocoo(mat)>> ELSE <<>>,
                    !.model = <<LightFM(h1[self.model_params], self.n_built + 1)>>,
                    !.n_built = self.n_built + 1]
    IN  set_fit_params(h1, self1, fit_params)

\* LightFMRecommender.fit(train_obs, **fit_params)
LightFMRecommender_fit(h, self, train_obs, fit_params) ==
    LET p == prep_for_fit(h, self, train_obs, fit_params)
    IN  [heap |-> p.heap,
         self |-> [p.self EXCEPT !.model =
                      <<LightFM_fit(p.self.model[1], p.self.train_mat[1],
                                    p.self.sample_weight, p.heap[p.self.fit_params])>>]]

\* LightFMRecommender.fit_partial(train_obs, epochs): the local fit_params is
\* a dictionary of its own, gone when the call returns
LightFMRecommender_fit_partial(h, self, train_obs, epochs) ==
    LET u == dict_update(h, self.fit_params, [epochs |-> epochs], "fit_params")
        fit_params == u.heap[u.ref]
        r == IF self.model = <<>>
             THEN LightFMRecommender_fit(u.heap, self, train_obs, fit_params)
             ELSE [heap |-> u.heap,
                   self |-> [self EXCEPT !.model =
                               <<LightFM_fit_partial(self.model[1], self.train_mat[1],
                                                     self.sample_weight, fit_params)>>]]
    IN  [heap |-> [r.heap EXCEPT !["fit_params"] = EmptyDict], self |-> r.self]

\* interactions_mat_to_cooccurrence_mat(train_mat): items by items
interactions_mat_to_cooccurrence_mat(mat) == [of |-> mat.of, shape1 |-> mat.shape1]

\* a mutant of cooc_stale: only an absent cache is rebuilt
cooc_absent(cooc_mat, train_mat) == cooc_mat = <<>>

\* self.cooc_mat is None or self.cooc_mat.shape[1] != self.train_mat.shape[1]
cooc_stale(cooc_mat, train_mat) ==
    \/ cooc_mat = <<>>
    \/ cooc_mat[1].shape1 # train_mat[1].shape1

\* the constructor arguments and the arguments of the calls
ModelParamsArgs ==
    {EmptyDict, [no_components |-> 10], [no_components |-> 20],
     [loss |-> "warp"], [loss |-> "bpr", no_components |-> 10]}
FitParamsArgs ==
    {EmptyDict, [epochs |-> 1], [item_features |-> "X"], [num_threads |-> 1, epochs |-> 2]}
SetParamsArgs ==
    {[epochs |-> 1], [epochs |-> 2, no_components |-> 20], [loss |-> "warp"],
     [use_sample_weight |-> TRUE, loss |-> "bpr"], [use_sample_weight |-> FALSE],
     [no_components |-> 10]}
FitSetParamsArgs ==
    {[use_sample_weight |-> TRUE], [use_sample_weight |-> FALSE], [epochs |-> 2]}
FitKwargs == {EmptyDict, [epochs |-> 1], [epochs |-> 2]}

InitLfm ==
    \E usw \in BOOLEAN, ext \in {"None", "F"},
       mp \in {EmptyDict, [no_components |-> 10]},
       fp \in {EmptyDict, [item_features |-> "X"]} :
        LET a == LightFMRecommender_init(ClassHeap, "a", usw, ext, mp, fp)
            b == LightFMRecommender_init(a.heap, "b", FALSE, "None", EmptyDict, EmptyDict)
        IN  /\ lf_heap = b.heap
            /\ lf_a = a.self
            /\ lf_b = b.self
            /\ lf_call = [op |-> "init"]

\* lf_a.set_params(**params)
call_set_params(params) ==
    LET r == LightFMRecommender_set_params(lf_heap, lf_a, params)
    IN  /\ lf_heap' = r.heap
        /\ lf_a' = r.self
        /\ lf_call' = [op |-> "set_params", params |-> params]
        /\ UNCHANGED lf_b
        /\ UNCHANGED outsideLfm

\* lf_a._set_model_params(params)
call_set_model_params(params) ==
    LET r == set_model_params(lf_heap, lf_a, params)
    IN  /\ lf_heap' = r.heap
        /\ lf_a' = r.self
        /\ lf_call' = [op |-> "_set_model_params", params |-> params]
        /\ UNCHANGED lf_b
        /\ UNCHANGED outsideLfm

\* lf_a._set_fit_params(params)
call_set_fit_params(params) ==
    LET r == set_fit_params(lf_heap, lf_a, params)
    IN  /\ lf_heap' = r.heap
        /\ lf_a' = r.self
        /\ lf_call' = [op |-> "_set_fit_params", params |-> params]
        /\ UNCHANGED lf_b
        /\ UNCHANGED outsideLfm

\* lf_a.fit(train_obs, **fit_params)
call_fit ==
    /\ lf_a.n_built < MaxBuilt
    /\ \E train_obs \in Observations, fit_params \in FitKwargs :
        LET r == LightFMRecommender_fit(lf_heap, lf_a, train_obs, fit_params)
        IN  /\ lf_heap' = r.heap
            /\ lf_a' = r.self
            /\ lf_call' = [op |-> "fit", train_obs |-> train_obs, params |-> fit_params]
    /\ UNCHANGED lf_b
    /\ UNCHANGED outsideLfm

\* lf_a.fit_partial(train_obs, epochs)
call_fit_partial ==
    /\ \E train_obs \in Observations, epochs \in {1, 2} :
        /\ IF lf_a.model = <<>>
           THEN lf_a.n_built < MaxBuilt
           ELSE Len(lf_a.model[1].epochs) < MaxRuns
        /\ LET r == LightFMRecommender_fit_partial(lf_heap, lf_a, train_obs, epochs)
           IN  /\ lf_heap' = r.heap
               /\ lf_a' = r.self
               /\ lf_call' = [op |-> "fit_partial", train_obs |-> train_obs,
                              epochs |-> epochs]
    /\ UNCHANGED lf_b
    /\ UNCHANGED outsideLfm

\* lf_a.get_similar_items(itemids, simil_mode='cooccurrence'): before any fit
\* there is no training matrix to count co-occurrences in, and the call raises
LightFMRecommender_get_similar_items ==
    /\ IF lf_a.train_mat = <<>>
       THEN /\ lf_call' = [op |-> "get_similar_items", result |-> "raised"]
            /\ UNCHANGED lf_a
       ELSE IF cooc_stale(lf_a.cooc_mat, lf_a.train_mat)
       THEN /\ lf_a' = [lf_a EXCEPT !.cooc_mat =
                           <<interactions_mat_to_cooccurrence_mat(lf_a.train_mat[1])>>]
            /\ lf_call' = [op |-> "get_similar_items", result |-> "built"]
       ELSE /\ lf_call' = [op |-> "get_similar_items", result |-> "reused"]
            /\ UNCHANGED lf_a
    /\ UNCHANGED <<lf_heap, lf_b>>
    /\ UNCHANGED outsideLfm

NextLfm ==
    \/ call_fit
    \/ call_fit_partial
    \/ LightFMRecommender_get_similar_items
    \/ \E params \in FitSetParamsArgs : call_set_params(params)

InitLfmSpec ==
    InitLfm /\ CoreIdle /\ MoreIdle /\ EnsembleParamsIdle /\ EvalIdle /\ CombinationIdle /\ PeakIdle
       /\ SimilItemsIdle /\ ChunkIdle

SpecLfm == InitLfmSpec /\ [][NextLfm]_vars

NextLfmParams ==
    \/ \E params \in SetParamsArgs : call_set_params(params)
    \/ \E params \in ModelParamsArgs : call_set_model_params(params)
    \/ \E params \in FitParamsArgs : call_set_fit_params(params)

SpecLfmParams == InitLfmSpec /\ [][NextLfmParams]_vars

\* the model object before and after a step is the same object
SameModelObject == lf_a.model # <<>> /\ lf_a'.model # <<>> /\ lf_a'.model[1].id = lf_a.model[1].id

\* a fit_partial step on an instance without a model ends where
\* fit(train_obs, epochs=epochs) would have ended
FitPartialAsFit ==
    LET r == LightFMRecommender_fit(lf_heap, lf_a, lf_call'.train_obs,
                                    [epochs |-> lf_call'.epochs])
    IN  lf_a' = r.self /\ lf_heap' = r.heap

\* a fit_partial step on an instance with a model keeps the model object,
\* trains it for `epochs` more epochs on the stored matrix and weights, and
\* leaves every other attribute and every dictionary as it was
ExistingModelKept ==
    /\ SameModelObject
    /\ lf_a'.model[1].epochs = Append(lf_a.model[1].epochs, lf_call'.epochs)
    /\ lf_a'.model[1].interactions = lf_a.train_mat
    /\ lf_a'.model[1].sample_weight = lf_a.sample_weight
    /\ lf_a'.model[1].params = lf_a.model[1].params
    /\ lf_a' = [lf_a EXCEPT !.model = lf_a'.model]
    /\ lf_heap' = lf_heap

\* C21: fit_partial(train_obs, epochs) without a model does what fit does;
\* with a model it keeps the model object, trains it for `epochs` more epochs
\* on the stored training matrix and sample weights, and leaves the stored fit
\* parameters, training matrix, training frame and matrix builder unchanged.
C21_FitPartialContract ==
    [][lf_call'.op = "fit_partial" =>
          IF lf_a.model = <<>> THEN FitPartialAsFit ELSE ExistingModelKept]_lfmVars

\* the part of C21 about an instance that has a model
C21_ExistingModelKept ==
    [][(lf_call'.op = "fit_partial" /\ lf_a.model # <<>>) => ExistingModelKept]_lfmVars

\* the keys of dictionary `ref` before the step are there after it under
\* `ref2`, with their value unless the update names them
KeysKept(ref, ref2, named) ==
    \A k \in DOMAIN lf_heap[ref] :
        /\ k \in DOMAIN lf_heap'[ref2]
        /\ k \notin named => lf_heap'[ref2][k] = lf_heap[ref][k]

\* C22: over set_params, _set_model_params and _set_fit_params calls every
\* key not named by an update keeps its value and no key is removed, and the
\* class-level default dictionaries and the dictionaries of the other
\* instance are never modified.
C22_UpdatesKeepOtherKeys ==
    [][/\ KeysKept(lf_a.model_params, lf_a'.model_params, DOMAIN lf_call'.params)
       /\ KeysKept(lf_a.fit_params, lf_a'.fit_params, DOMAIN lf_call'.params)
       /\ lf_heap'["default_model_params"] = default_model_params
       /\ lf_heap'["default_fit_params"] = default_fit_params
       /\ lf_heap'[lf_b'.model_params] = default_model_params
       /\ lf_heap'[lf_b'.fit_params] = default_fit_params]_lfmVars

\* set_params updated one model parameter and the epochs, and the other
\* model parameter and the other fit parameters are still there
C22_Witness ==
    /\ lf_call.op = "set_params"
    /\ DOMAIN lf_call.params = {"epochs", "no_components"}
    /\ lf_heap[lf_a.model_params] = [no_components |-> 20, loss |-> "bpr"]
    /\ lf_heap[lf_a.fit_params] =
          [epochs |-> 2, item_features |-> "X", num_threads |-> N_CPUS]

\* C26: a cooccurrence-mode get_similar_items (re)builds the cached matrix
\* from the current training matrix exactly when it is absent or its column
\* count differs from the training matrix's, and reuses it unchanged
\* otherwise; fit, fit_partial and set_params leave the cache alone.
C26_CacheRebuiltWhenStale ==
    [][/\ (lf_call'.op = "get_similar_items" /\ lf_a.train_mat # <<>>) =>
            IF lf_a.cooc_mat = <<>> \/ lf_a.cooc_mat[1].shape1 # lf_a.train_mat[1].shape1
            THEN lf_a'.cooc_mat = <<[of |-> lf_a.train_mat[1].of,
                                     shape1 |-> lf_a.train_mat[1].shape1]>>
            ELSE lf_a'.cooc_mat = lf_a.cooc_mat
       /\ lf_call'.op \in {"fit", "fit_partial", "set_params"} =>
            lf_a'.cooc_mat = lf_a.cooc_mat]_lfmVars

\* a cache built from an earlier training matrix with the same number of
\* columns was reused after a fit on other observations
C26_Witness ==
    /\ lf_call.op = "get_similar_items"
    /\ lf_call.result = "reused"
    /\ lf_a.cooc_mat[1].of # lf_a.train_mat[1].of

\* a cache was rebuilt because the number of columns changed
C26_WitnessRebuilt ==
    /\ lf_call.op = "get_similar_items"
    /\ lf_call.result = "built"
    /\ lf_a.n_built = 2
    /\ lf_a.cooc_mat[1].of = lf_a.train_mat[1].of

(***************************************************************************)
(* SubdivisionEnsembleBase.set_params.                                     *)
(***************************************************************************)
\* sub-model objects one ensemble constructs in all
MaxConstructed == 7

\* a mutant of pop_set_dict: the named keys are set but stay in params
set_dict_without_pop(obj, params, pop_params) ==
    [obj |-> d_update(obj, [p \in pop_params \cap DOMAIN params |-> params[p]]),
     params |-> params]

\* _pop_set_dict(d, params, pop_params): every key of pop_params that params
\* has is moved from params to d; params is returned
pop_set_dict(obj, params, pop_params) ==
    [obj |-> d_update(obj, [p \in pop_params \cap DOMAIN params |-> params[p]]),
     params |-> dict_without(params, pop_params)]

\* sub_class_type(**params): a new, unfitted sub-model; its constructor keeps
\* the keyword arguments as model parameters
sub_class_type(id, params) == [id |-> id, fitted |-> FALSE, model_params |-> params]

\* _init_sub_models(**params)
init_sub_models(self, params) ==
    [self EXCEPT
        !.sub_models = [i \in 1..self.n_models |->
                           sub_class_type(self.n_constructed + i, params)],
        !.n_constructed = self.n_constructed + self.n_models]

\* model.set_params(**params) of a sub-model (BaseDFRecommender.set_params)
sub_model_set_params(m, params) ==
    [m EXCEPT !.model_params = d_update(@, params)]

\* SubdivisionEnsembleBase.set_params(**params)
SubdivisionEnsembleBase_set_params(self, params) ==
    LET popped == pop_set_dict(self, params, {"n_models"})
        self1 == [popped.obj EXCEPT !.model_params = d_update(@, popped.params)]
        self2 == init_sub_models(self1, EmptyDict)
    IN  [self2 EXCEPT !.sub_models =
            [i \in DOMAIN self2.sub_models |->
                sub_model_set_params(self2.sub_models[i], popped.params)]]

\* the keyword arguments of set_params
EnsembleParamsArgs ==
    {d_update(d_update(n, c), l) :
        n \in {EmptyDict} \cup {[n_models |-> k] : k \in 1..MaxPoolModels},
        c \in {EmptyDict, [no_components |-> 10], [no_components |-> 20]},
        l \in {EmptyDict, [loss |-> "warp"]}}

\* the ensemble after __init__(n_models=n), with sub_class_type set by the
\* concrete class
InitEnsembleParams ==
    /\ \E n \in 1..MaxPoolModels :
          en_self = init_sub_models(
                       [n_models |-> n, model_params |-> EmptyDict,
                        sub_models |-> <<>>, n_constructed |-> 0], EmptyDict)
    /\ en_call = [op |-> "init"]

\* ensemble.set_params(**params)
ensemble_set_params ==
    /\ \E params \in EnsembleParamsArgs :
        /\ en_self.n_constructed
              + (IF "n_models" \in DOMAIN params THEN params["n_models"] ELSE en_self.n_models)
              <= MaxConstructed
        /\ en_self' = SubdivisionEnsembleBase_set_params(en_self, params)
        /\ en_call' = [op |-> "set_params", params |-> params]
    /\ UNCHANGED outsideEnsembleParams

\* ensemble.fit(train_obs) returned: sub_models is the list of fitted models
ensemble_fit ==
    /\ en_self' = [en_self EXCEPT !.sub_models =
                      [i \in DOMAIN @ |-> [@[i] EXCEPT !.fitted = TRUE]]]
    /\ en_call' = [op |-> "fit"]
    /\ UNCHANGED outsideEnsembleParams

NextEnsembleParams ==
    \/ ensemble_set_params
    \/ ensemble_fit

InitEnsembleParamsSpec ==
    InitEnsembleParams /\ CoreIdle /\ MoreIdle /\ LfmIdle /\ EvalIdle /\ CombinationIdle /\ PeakIdle
       /\ SimilItemsIdle /\ ChunkIdle

SpecEnsembleParams == InitEnsembleParamsSpec /\ [][NextEnsembleParams]_vars

\* the identities of the sub-models of an ensemble
SubModelIds(self) == {self.sub_models[i].id : i \in DOMAIN self.sub_models}

\* C23: after set_params(**p), n_models is p's n_models when given (else its
\* old value), sub_models holds exactly n_models newly constructed, unfitted
\* sub-models, every sub-model has every remaining parameter of p, and
\* n_models was passed to no sub-model.
C23_SetParamsRebuildsSubModels ==
    [][en_call'.op = "set_params" =>
          LET p == en_call'.params
              n == IF "n_models" \in DOMAIN p THEN p["n_models"] ELSE en_self.n_models
              new == en_self'.sub_models
          IN  /\ en_self'.n_models = n
              /\ Len(new) = n
              /\ Cardinality(SubModelIds(en_self')) = n
              /\ SubModelIds(en_self') \cap SubModelIds(en_self) = {}
              /\ \A i \in DOMAIN new :
                    /\ ~new[i].fitted
                    /\ "n_models" \notin DOMAIN new[i].model_params
                    /\ \A k \in (DOMAIN p) \ {"n_models"} :
                          /\ k \in DOMAIN new[i].model_params
                          /\ new[i].model_params[k] = p[k]]_ensembleParamsVars

\* set_params changed n_models from 1 to 3 on a fitted ensemble and every
\* new sub-model has the two other parameters
C23_Witness ==
    /\ en_call.op = "set_params"
    /\ DOMAIN en_call.params = {"n_models", "no_components", "loss"}
    /\ en_self.n_models = 3
    /\ en_self.n_constructed = 4
    /\ \A i \in 1..3 : en_self.sub_models[i].model_params = [no_components |-> 20, loss |-> "warp"]

(***************************************************************************)
(* eval_on_test_by_ranking / eval_on_test_by_ranking_exact_and_slow: the   *)
(* rows of the report.                                                     *)
(***************************************************************************)
\* test frames given to one evaluation
MaxFrames == 3

\* test_dfs: a list of n test frames (frame i is named by i; 0 names the
\* training matrix), or a single frame not in a list
TestDfsArgs ==
    {[kind |-> "list", frames |-> [i \in 1..n |-> i]] : n \in 1..MaxFrames}
        \cup {[kind |-> "DataFrame", frames |-> <<1>>]}

\* test_names: the default ('',) or one name per frame for up to three frames
TestNamesArgs == {<<"">>, <<"a ">>, <<"a ", "b ">>, <<"a ", "b ", "c ">>}

InitEval ==
    /\ ev_call \in [method : {"eval_on_test_by_ranking",
                              "eval_on_test_by_ranking_exact_and_slow"},
                    test_dfs : TestDfsArgs,
                    test_names : TestNamesArgs,
                    prefix : {"default", "", "my "},
                    include_train : BOOLEAN]
    /\ ev_out = [status |-> "none"]

\* zip(a, b): pairs up to the end of the shorter sequence
zip(a, b) == [i \in 1..Min(Len(a), Len(b)) |-> <<a[i], b[i]>>]

\* mean_scores_report_on_ranks(ranks_list=[r], datasets=[d], dataset_names=[n]):
\* a report of one row, named n, of the scores on dataset d
mean_scores_report_on_ranks(dataset, dataset_name) ==
    <<[name |-> dataset_name, dataset |-> dataset]>>

\* pd.concat(report_dfs): the rows of the reports in order; ValueError when
\* there is no report to concatenate
pd_concat(report_dfs) ==
    IF report_dfs = <<>>
    THEN [status |-> "ValueError"]
    ELSE [status |-> "ok",
          rows |-> [i \in 1..Len(report_dfs) |-> report_dfs[i][1]]]

\* _eval_on_test_by_ranking_LFM(train_ranks_func, test_tanks_func, test_dfs,
\* test_names, prefix, include_train)
eval_on_test_by_ranking_LFM(test_dfs, test_names, prefix, include_train) ==
    LET frames == test_dfs.frames   \* a single DataFrame is put in a list
        train == IF include_train
                 THEN <<mean_scores_report_on_ranks(0, prefix \o "train")>>
                 ELSE <<>>
        pairs == zip(frames, test_names)
        tests == [i \in 1..Len(pairs) |->
                     mean_scores_report_on_ranks(pairs[i][1],
                                                 (prefix \o pairs[i][2]) \o "test")]
    IN  pd_concat(train \o tests)

\* the default of prefix: 'rec ' in eval_on_test_by_ranking, 'lfm ' in
\* eval_on_test_by_ranking_exact_and_slow
prefix_of(call) ==
    IF call.prefix # "default" THEN call.prefix
    ELSE IF call.method = "eval_on_test_by_ranking" THEN "rec " ELSE "lfm "

\* BaseDFSparseRecommender.eval_on_test_by_ranking(test_dfs, test_names, prefix,
\* include_train)
eval_on_test_by_ranking ==
    /\ ev_out.status = "none"
    /\ ev_call.method = "eval_on_test_by_ranking"
    /\ ev_out' = eval_on_test_by_ranking_LFM(ev_call.test_dfs, ev_call.test_names,
                                             prefix_of(ev_call), ev_call.include_train)
    /\ UNCHANGED ev_call
    /\ UNCHANGED outsideEval

\* LightFMRecommender.eval_on_test_by_ranking_exact_and_slow(test_dfs,
\* test_names, prefix, include_train)
eval_on_test_by_ranking_exact_and_slow ==
    /\ ev_out.status = "none"
    /\ ev_call.method = "eval_on_test_by_ranking_exact_and_slow"
    /\ ev_out' = eval_on_test_by_ranking_LFM(ev_call.test_dfs, ev_call.test_names,
                                             prefix_of(ev_call), ev_call.include_train)
    /\ UNCHANGED ev_call
    /\ UNCHANGED outsideEval

NextEval ==
    \/ eval_on_test_by_ranking
    \/ eval_on_test_by_ranking_exact_and_slow

InitEvalSpec ==
    InitEval /\ CoreIdle /\ MoreIdle /\ LfmIdle /\ EnsembleParamsIdle /\ CombinationIdle /\ PeakIdle
       /\ SimilItemsIdle /\ ChunkIdle

SpecEval == InitEvalSpec /\ [][NextEval]_vars

\* the names of the rows of a report
RowNames(out) == [i \in 1..Len(out.rows) |-> out.rows[i].name]

\* the row names the report should have: the train row when asked for, then
\* one row per test frame (names beyond the end of test_names are not compared)
RowsAsSupplied ==
    LET n == Len(ev_call.test_dfs.frames)
        t == IF ev_call.include_train THEN 1 ELSE 0
        names == RowNames(ev_out)
    IN  /\ ev_out.status = "ok"
        /\ Len(names) = t + n
        /\ ev_call.include_train => names[1] = prefix_of(ev_call) \o "train"
        /\ \A i \in 1..n :
              /\ ev_out.rows[t + i].dataset = ev_call.test_dfs.frames[i]
              /\ i <= Len(ev_call.test_names) =>
                    names[t + i] = (prefix_of(ev_call) \o ev_call.test_names[i]) \o "test"

\* C24: the report has exactly one row per supplied test frame, named
\* prefix + test_name + 'test', in the order supplied, preceded by one row
\* prefix + 'train' exactly when include_train is set, for any number of test
\* frames and any test_names argument, including the default.
C24_OneRowPerTestFrame == ev_out.status # "none" => RowsAsSupplied

\* the same when test_names has at least one name per test frame
C24_RowsWhenNamesMatch ==
    (/\ ev_out.status # "none"
     /\ Len(ev_call.test_names) >= Len(ev_call.test_dfs.frames)) => RowsAsSupplied

(***************************************************************************)
(* CombinationEnsembleBase.fit.                                            *)
(***************************************************************************)
\* recommenders a combination ensemble wraps
MaxRecommenders == 2

\* a member recommender, fitted by the caller on some observations
FittedRecommender(obs) ==
    [model |-> <<[fitted_on |-> obs]>>,
     sparse_mat_builder |-> <<obs>>,
     train_mat |-> <<build_sparse_interaction_matrix(obs)>>,
     train_df |-> <<obs>>]

\* self._reuse_data(other): the matrix builder and the training data of
\* another recommender become this one's
reuse_data(self, other) ==
    [self EXCEPT !.sparse_mat_builder = other.sparse_mat_builder,
                 !.train_mat = other.train_mat,
                 !.train_df = other.train_df]

\* CombinationEnsembleBase.__init__(recommenders)
CombinationEnsembleBase_init(members) ==
    reuse_data([recommenders |-> members,
                n_recommenders |-> Len(members),
                model_params |-> default_model_params,
                fit_params |-> EmptyDict,
                train_df |-> <<>>,
                model |-> <<>>,
                sparse_mat_builder |-> <<>>,
                train_mat |-> <<>>],
               members[1])

InitCombination ==
    /\ \E n \in 1..MaxRecommenders :
          \E obs \in [1..n -> Observations] :
              cb_self = CombinationEnsembleBase_init([i \in 1..n |-> FittedRecommender(obs[i])])
    /\ cb_warnings = {}
    /\ cb_call = [op |-> "init"]

\* the arguments a caller may pass to fit
CombinationFitArgs ==
    [args : {<<>>} \cup {<<obs>> : obs \in Observations}, kwargs : FitKwargs]

\* a mutant of CombinationEnsembleBase_fit: the members are fitted on the
\* observations given
fit_members(self, a) ==
    IF a.args = <<>> THEN self
    ELSE [self EXCEPT !.recommenders =
             [i \in DOMAIN @ |-> FittedRecommender(a.args[1])]]

\* CombinationEnsembleBase.fit(*args, **kwargs): what it does to the ensemble
CombinationEnsembleBase_fit(self, a) == self

\* warnings.warn(message) under the default filter: a warning is shown the
\* first time it is issued from a location, and recorded in the registry
warnings_warn(registry, text) ==
    [registry |-> registry \cup {text}, shown |-> text \notin registry]

\* ensemble.fit(*args, **kwargs)
combination_fit ==
    /\ \E a \in CombinationFitArgs :
        LET w == warnings_warn(cb_warnings, "Fit is not supported")
        IN  /\ cb_warnings' = w.registry
            /\ cb_self' = CombinationEnsembleBase_fit(cb_self, a)
            /\ cb_call' = [op |-> "fit", args |-> a, shown |-> w.shown,
                           result |-> "returned"]
    /\ UNCHANGED outsideCombination

NextCombination == combination_fit

InitCombinationSpec ==
    InitCombination /\ CoreIdle /\ MoreIdle /\ LfmIdle /\ EnsembleParamsIdle /\ EvalIdle
       /\ PeakIdle
       /\ SimilItemsIdle /\ ChunkIdle

SpecCombination == InitCombinationSpec /\ [][NextCombination]_vars

\* C25: fit, with any arguments, changes nothing in the ensemble (member
\* list, shared matrix builder, training matrix, training frame, parameters)
\* nor in any member, issues the warning and returns.
C25_FitChangesNothing ==
    [][cb_call'.op = "fit" =>
          /\ cb_self' = cb_self
          /\ cb_call'.result = "returned"
          /\ "Fit is not supported" \in cb_warnings']_combinationVars

\* fit was called with observations other than those the members were fitted
\* on, and the members and the shared data are those of construction
C25_Witness ==
    /\ cb_call.op = "fit"
    /\ cb_call.args.args = <<"obs3">>
    /\ cb_self.n_recommenders = 2
    /\ \A i \in 1..2 : cb_self.recommenders[i].model = <<[fitted_on |-> "obs1"]>>
    /\ cb_self.train_mat = <<build_sparse_interaction_matrix("obs1")>>

(***************************************************************************)
(* MaxMemoryMonitor: the sampling thread and the thread that calls stop,   *)
(* statement by statement.                                                 *)
(***************************************************************************)
\* the memory readings: percentages 1..MaxReading
MaxReading == 3

PeakReadings == 1..MaxReading

\* the two threads that run _measure_peak
PeakThreads == {"loop", "caller"}

\* after start(): _run_condition is set, peak_memory is 0, the sampling thread
\* is about to test _run_condition and the caller is at work
InitPeak ==
    /\ pk_run_condition = TRUE
    /\ pk_peak_memory = 0
    /\ pk_threads = [th \in PeakThreads |->
                        [pc |-> IF th = "loop" THEN "test" ELSE "working",
                         peak_memory |-> 0, current |-> 0]]
    /\ pk_hist = [measured |-> 0, highest |-> 0, returned |-> <<>>]

\* _thread_loop: while self._run_condition
thread_loop_test ==
    /\ pk_threads["loop"].pc = "test"
    /\ pk_threads' = [pk_threads EXCEPT !["loop"].pc =
                         IF pk_run_condition THEN "load" ELSE "halted"]
    /\ UNCHANGED <<pk_run_condition, pk_peak_memory, pk_hist>>
    /\ UNCHANGED outsidePeak

\* stop(): self._run_condition = False
stop_clear_run_condition ==
    /\ pk_threads["caller"].pc = "working"
    /\ pk_run_condition' = FALSE
    /\ pk_threads' = [pk_threads EXCEPT !["caller"].pc = "load"]
    /\ UNCHANGED <<pk_peak_memory, pk_hist>>
    /\ UNCHANGED outsidePeak

\* _measure_peak, first argument of max: self.peak_memory is read
measure_peak_load(th) ==
    /\ pk_threads[th].pc = "load"
    /\ pk_threads' = [pk_threads EXCEPT ![th].pc = "current",
                                        ![th].peak_memory = pk_peak_memory]
    /\ UNCHANGED <<pk_run_condition, pk_peak_memory, pk_hist>>
    /\ UNCHANGED outsidePeak

\* _measure_peak, second argument of max: self._current() reads the memory in use
measure_peak_current(th) ==
    /\ pk_threads[th].pc = "current"
    /\ \E reading \in PeakReadings :
          pk_threads' = [pk_threads EXCEPT ![th].pc = "store", ![th].current = reading]
    /\ UNCHANGED <<pk_run_condition, pk_peak_memory, pk_hist>>
    /\ UNCHANGED outsidePeak

\* max(a, b)
max_of(a, b) == IF a > b THEN a ELSE b

\* _measure_peak: self.peak_memory = max(...) is stored; the sampling thread
\* then sleeps and tests again, stop goes on to its return statement
measure_peak_store(th) ==
    /\ pk_threads[th].pc = "store"
    /\ pk_peak_memory' = max_of(pk_threads[th].peak_memory, pk_threads[th].current)
    /\ pk_threads' = [pk_threads EXCEPT ![th].pc =
                         IF th = "loop" THEN "test" ELSE "ret_current"]
    /\ pk_hist' = [pk_hist EXCEPT
                      !.measured = max_of(@, pk_threads[th].current),
                      !.highest = max_of(@, pk_peak_memory')]
    /\ UNCHANGED pk_run_condition
    /\ UNCHANGED outsidePeak

\* stop(): return self._current(), self.peak_memory -- the first element
stop_return_current ==
    /\ pk_threads["caller"].pc = "ret_current"
    /\ \E reading \in PeakReadings :
          pk_threads' = [pk_threads EXCEPT !["caller"].pc = "ret_peak",
                                           !["caller"].current = reading]
    /\ UNCHANGED <<pk_run_condition, pk_peak_memory, pk_hist>>
    /\ UNCHANGED outsidePeak

\* stop(): return self._current(), self.peak_memory -- the second element,
\* and the return
stop_return_peak ==
    /\ pk_threads["caller"].pc = "ret_peak"
    /\ pk_threads' = [pk_threads EXCEPT !["caller"].pc = "returned"]
    /\ pk_hist' = [pk_hist EXCEPT !.returned =
                      <<[current |-> pk_threads["caller"].current,
                         peak |-> pk_peak_memory,
                         measured |-> pk_hist.measured]>>]
    /\ UNCHANGED <<pk_run_condition, pk_peak_memory>>
    /\ UNCHANGED outsidePeak

NextPeak ==
    \/ thread_loop_test
    \/ stop_clear_run_condition
    \/ \E th \in PeakThreads : measure_peak_load(th)
    \/ \E th \in PeakThreads : measure_peak_current(th)
    \/ \E th \in PeakThreads : measure_peak_store(th)
    \/ stop_return_current
    \/ stop_return_peak

InitPeakSpec ==
    InitPeak /\ CoreIdle /\ MoreIdle /\ LfmIdle /\ EnsembleParamsIdle /\ EvalIdle
       /\ CombinationIdle
       /\ SimilItemsIdle /\ ChunkIdle

SpecPeak == InitPeakSpec /\ [][NextPeak]_vars

\* C27: under every interleaving of the sampling loop and the thread calling
\* stop, the stored peak never decreases, and the peak stop returns is at
\* least every reading a completed _measure_peak sampled before the return
\* and at least the current value returned with it.
C27_PeakCoversSamples ==
    /\ pk_peak_memory = pk_hist.highest
    /\ pk_hist.returned # <<>> =>
          /\ pk_hist.returned[1].peak >= pk_hist.returned[1].measured
          /\ pk_hist.returned[1].peak >= pk_hist.returned[1].current

\* what does hold: the peak stop returns is 0 or a reading that was sampled
C27_PeakIsASample ==
    pk_hist.returned # <<>> => pk_hist.returned[1].peak <= pk_hist.measured

(***************************************************************************)
(* FactorizationRecommender.get_similar_items: n_simil + 1 neighbours are  *)
(* asked of most_similar, same-id pairs are stripped, and the lists format *)
(* is cut at n_simil.                                                      *)
(***************************************************************************)
\* the size of the item vocabulary of the training data
MaxSimilItems == 3
\* the largest n_simil of a call
MaxNSimil == 2

\* all_items(): the ids of the training data
all_item_ids == 1..MaxSimilItems

\* the item_ids and target_item_ids arguments; id 0 is not in the training data
SimilItemIdArgs ==
    {[given |-> FALSE, ids |-> {}]}
        \cup {[given |-> TRUE, ids |-> ids] :
                 ids \in {{1}, {2}, {1, 2}, {2, 3}, {1, 2, 3}, {0, 2, 3}}}

\* one-dimensional unit representations of the items
SimilRepresentations == [all_item_ids -> {-1, 1}]

InitSimilItems ==
    /\ si_call \in [item_ids : SimilItemIdArgs, target_item_ids : SimilItemIdArgs,
                    n_simil : 1..MaxNSimil, remove_self : BOOLEAN,
                    results_format : {"flat", "lists"},
                    representations : SimilRepresentations]
    /\ si_out = [status |-> "none"]

\* remove_unseen_items: the ids that are in the training data
remove_unseen_items(ids) == ids \cap all_item_ids

\* _check_item_ids_args: no item_ids means all the items, given ids lose the
\* unseen ones; no target_item_ids stays None
check_item_ids_args(item_ids, target_item_ids) ==
    [item_ids |-> IF item_ids.given THEN remove_unseen_items(item_ids.ids) ELSE all_item_ids,
     target_item_ids |-> IF target_item_ids.given
                         THEN [given |-> TRUE,
                               ids |-> remove_unseen_items(target_item_ids.ids)]
                         ELSE target_item_ids]

\* simil_mode='cosine' on one-dimensional unit representations
cosine(representations, a, b) == representations[a] * representations[b]

\* most_similar: for each source the top n targets by descending score, as the
\* triplets of the flat frame; one frame for each order equal scores may take.
\* No target_ids means every id of the encoder; the self entry is not masked.
most_similar(source_ids, target_ids, representations, n) ==
    LET targets == IF target_ids.given THEN target_ids.ids ELSE all_item_ids
        rows(s) == {[source |-> s, item |-> t,
                     prediction |-> cosine(representations, s, t)] : t \in targets}
        orders == {o \in [source_ids -> UNION {sorted_rows(rows(s)) : s \in source_ids}] :
                      \A s \in source_ids : o[s] \in sorted_rows(rows(s))}
        top(q) == {q[k] : k \in 1..Min(n, Len(q))}
    IN  {UNION {top(o[s]) : s \in source_ids} : o \in orders}

\* _remove_self_similarities: the rows whose two ids differ
remove_self_similarities(flat_df) == {r \in flat_df : r.source # r.item}

\* _simil_flat_to_lists: per source the first n_cutoff items and scores of the
\* sorted frame; one frame for each order the sort may give to equal scores
simil_flat_to_lists(df, n_cutoff) ==
    LET sources == {r.source : r \in df}
        rows(s) == {r \in df : r.source = s}
        orders == {o \in [sources -> UNION {sorted_rows(rows(s)) : s \in sources}] :
                      \A s \in sources : o[s] \in sorted_rows(rows(s))}
        cut(q) == SubSeq(q, 1, Min(n_cutoff, Len(q)))
    IN  {{[source |-> s,
           items |-> [k \in DOMAIN cut(o[s]) |-> cut(o[s])[k].item],
           predictions |-> [k \in DOMAIN cut(o[s]) |-> cut(o[s])[k].prediction]] :
              s \in sources} :
            o \in orders}

\* get_similar_items: the frames the call may return
FactorizationRecommender_get_similar_items(call) ==
    LET args == check_item_ids_args(call.item_ids, call.target_item_ids)
        n == IF call.remove_self THEN call.n_simil + 1 ELSE call.n_simil
        best == most_similar(args.item_ids, args.target_item_ids,
                             call.representations, n)
        stripped == {IF call.remove_self THEN remove_self_similarities(simil_df)
                                         ELSE simil_df : simil_df \in best}
    IN  IF call.results_format = "lists"
        THEN UNION {simil_flat_to_lists(simil_df, call.n_simil) : simil_df \in stripped}
        ELSE stripped

\* one call of get_similar_items returns
get_similar_items ==
    /\ si_out.status = "none"
    /\ \E simil_df \in FactorizationRecommender_get_similar_items(si_call) :
          si_out' = [status |-> "ok", df |-> simil_df]
    /\ UNCHANGED si_call
    /\ UNCHANGED outsideSimilItems

NextSimilItems == get_similar_items

InitSimilItemsSpec ==
    InitSimilItems /\ CoreIdle /\ MoreIdle /\ LfmIdle /\ EnsembleParamsIdle /\ EvalIdle
       /\ CombinationIdle /\ PeakIdle /\ ChunkIdle

SpecSimilItems == InitSimilItemsSpec /\ [][NextSimilItems]_vars

\* the source items the returned frame has rows for
SimilSources == {r.source : r \in si_out.df}

\* the neighbours the returned frame gives for a source item
SimilNeighbours(s) ==
    IF si_call.results_format = "lists"
    THEN UNION {{r.items[k] : k \in DOMAIN r.items} : r \in {x \in si_out.df : x.source = s}}
    ELSE {r.item : r \in {x \in si_out.df : x.source = s}}

\* C28: with remove_self=True the returned frame gives every source item at
\* most n_simil neighbours and never the source item itself, in the flat and
\* in the lists format and for every target_item_ids argument.
C28_AtMostNSimilNoSelf ==
    si_out.status = "ok" /\ si_call.remove_self =>
        \A s \in SimilSources :
            /\ Cardinality(SimilNeighbours(s)) <= si_call.n_simil
            /\ s \notin SimilNeighbours(s)

\* with remove_self=True no source item is its own neighbour, the lists format
\* gives at most n_simil neighbours and the flat format at most n_simil + 1
C28_NoSelfListsCut ==
    si_out.status = "ok" /\ si_call.remove_self =>
        \A s \in SimilSources :
            /\ s \notin SimilNeighbours(s)
            /\ si_call.results_format = "lists" =>
                  Cardinality(SimilNeighbours(s)) <= si_call.n_simil
            /\ si_call.results_format = "flat" =>
                  Cardinality(SimilNeighbours(s)) <= si_call.n_simil + 1

\* a flat frame with remove_self=True for targets that do not hold the source
C28_WitnessFlatOtherTargets ==
    /\ si_out.status = "ok"
    /\ si_call.remove_self
    /\ si_call.results_format = "flat"
    /\ si_call.item_ids = [given |-> TRUE, ids |-> {1}]
    /\ si_call.target_item_ids = [given |-> TRUE, ids |-> {2, 3}]
    /\ si_call.n_simil = 1
    /\ Cardinality(SimilNeighbours(1)) = 2

(***************************************************************************)
(* LightFMRecommender.get_recommendations_exact_and_slow: the chunk size   *)
(* is scaled by the size of the item vocabulary before the users are       *)
(* batched across the process pool.                                        *)
(***************************************************************************)
\* the factor of the scaling
ChunkScale == 35000
\* the default of the chunksize argument
DefaultChunksize == 200
\* the largest number of users of a call and the largest small chunksize
MaxChunkUsers == 4
MaxSmallChunksize == 2

\* the chunksize arguments: small ones and the default
ChunksizeArgs == 1..MaxSmallChunksize \cup {DefaultChunksize}

\* sparse_mat_builder.n_cols: small vocabularies and the ones around the values
\* at which the scaled chunk size changes
VocabularySizes ==
    1..MaxSmallChunksize
        \cup {((ChunkScale * c) \div k) + e :
                 c \in ChunksizeArgs, k \in 1..MaxSmallChunksize, e \in {0, 1}}

InitChunk ==
    /\ ch_call \in [chunksize : ChunksizeArgs, n_cols : VocabularySizes,
                    n_users : 1..MaxChunkUsers]
    /\ ch_out = [status |-> "none"]

\* int(35000 * chunksize / n_cols): the quotient of two positive numbers cut
\* to an integer
scaled_chunksize(chunksize, n_items) == (ChunkScale * chunksize) \div n_items

\* map_batches_multiproc: the items in chunks of chunksize, one result per
\* chunk in order; a chunk size below 1 gives no partition of the items
map_batches_multiproc(items, chunksize) ==
    IF chunksize >= 1
    THEN [status |-> "ok", ret |-> batch_generator(items, chunksize)]
    ELSE [status |-> "no_chunks", ret |-> <<>>]

\* one call: the chunk size is scaled, the users are batched and the results
\* of the batches are concatenated
get_recommendations_exact_and_slow ==
    /\ ch_out.status = "none"
    /\ LET chunksize == scaled_chunksize(ch_call.chunksize, ch_call.n_cols)
           mapped == map_batches_multiproc(itemids(ch_call.n_users), chunksize)
       IN  ch_out' = [status |-> mapped.status, chunksize |-> chunksize,
                      batches |-> mapped.ret,
                      scored |-> np_concatenate(mapped.ret)]
    /\ UNCHANGED ch_call
    /\ UNCHANGED outsideChunk

NextChunk == get_recommendations_exact_and_slow

InitChunkSpec ==
    InitChunk /\ CoreIdle /\ MoreIdle /\ LfmIdle /\ EnsembleParamsIdle /\ EvalIdle
       /\ CombinationIdle /\ PeakIdle /\ SimilItemsIdle

SpecChunk == InitChunkSpec /\ [][NextChunk]_vars

\* every batch holds a user and every requested user is scored once, in order
EveryUserScoredOnce ==
    /\ \A k \in DOMAIN ch_out.batches : Len(ch_out.batches[k]) >= 1
    /\ ch_out.scored = itemids(ch_call.n_users)

\* C30: the chunk size passed to the batching is at least 1 for every positive
\* chunksize and every size of the item vocabulary, so every batch holds at
\* least one user and every requested user is scored exactly once.
C30_ChunkAtLeastOne ==
    ch_out.status # "none" =>
        /\ ch_out.chunksize >= 1
        /\ EveryUserScoredOnce

\* the chunk size is at least 1, and every user is scored once, when the
\* vocabulary has at most 35000 * chunksize items; it is 0 when it has more
C30_ChunkByVocabulary ==
    ch_out.status # "none" =>
        IF ch_call.n_cols <= ChunkScale * ch_call.chunksize
        THEN ch_out.chunksize >= 1 /\ EveryUserScoredOnce
        ELSE ch_out.chunksize = 0

\* a call on a vocabulary of more than 35000 * chunksize items
C30_WitnessLargeVocabulary ==
    /\ ch_out.status # "none"
    /\ ch_call.chunksize = 1
    /\ ch_call.n_cols = ChunkScale + 1
    /\ ch_out.chunksize = 0

====
